---- MODULE Spec2Model ----
(***************************************************************************)
(* A state-machine model of smart-git-proxy's mirror cache                 *)
(* (internal/mirror/cache.go), its size specifications                     *)
(* (internal/config/size.go) and the per-fingerprint coordination the      *)
(* specification describes around them.                                    *)
(*                                                                         *)
(* Byte counts are exact integers.  float64 arithmetic in the source       *)
(* (percentages, the 0.90 eviction target) is modelled by exact rational   *)
(* arithmetic followed by truncation, which is what the float64            *)
(* computation yields for the magnitudes the model explores.               *)
(***************************************************************************)
EXTENDS Integers, Sequences, FiniteSets, TLC

\* ------------------------------------------------------------------ bounds
NumKeys == 3
MaxTime == 3
MaxRepoBytes == 2
MaxReaders == 1
NumSweepers == 2
NumRequests == 3

\* --------------------------------------------------------- program constants
DefaultMaxSizePercent == 80
MinFreeSpace == 1073741824
ZeroTime == 0

Keys == 1..NumKeys
Sweepers == 1..NumSweepers
Requests == 1..NumRequests
Times == 1..MaxTime

VARIABLES
    maxSize,     \* Cache.maxSize: the configured SizeSpec
    cfgKind,     \* how maxSize was configured: "unset", "abs", "pct" or "nan"
    accessTime,  \* Cache.accessTime: a map from key to time (sync.Map)
    mu,          \* Cache.mu: 0 when free, else the sweeper holding it
    now,         \* the wall clock read by time.Now()
    mirrors,     \* per key: the mirror <root>/<key>.git on disk
    tmp,         \* per key: a temporary clone directory exists under <root>
    readers,     \* per key: the read-lease count
    syncing,     \* per key: the exclusive (synchronization) slot is held
    sw,          \* per sweeper: the frame of its MaybeEvict call
    bg,          \* one getMaxSize call followed step by step
    requests,    \* per inbound request: where its dispatch stands
    flights,     \* per key: the one-slot singleflight record
    running,     \* per key: synchronizations running at this moment
    epoch,       \* per key: synchronizations that have ended
    sz,          \* one call of the size parser or formatter: input and result
    fs           \* the directory tree under the mirror root, path by path

cacheVars == <<maxSize, cfgKind, accessTime, mu, now, mirrors, tmp, readers, syncing, sw>>

dispatchVars == <<requests, flights, running, epoch>>

vars == <<cacheVars, bg, dispatchVars, sz, fs>>

\* ------------------------------------------------------- wide arithmetic
\* int64 and float64 values do not fit the integers of the checker, so the
\* size functions compute on naturals written in base 1024, lowest digit
\* first and without leading zeros (zero is the empty sequence).
unit == 1024

RECURSIVE NatNorm(_)
NatNorm(x) ==
    IF x = <<>> THEN <<>>
    ELSE IF x[Len(x)] = 0 THEN NatNorm(SubSeq(x, 1, Len(x) - 1)) ELSE x

RECURSIVE NatOf(_)
NatOf(i) == IF i = 0 THEN <<>> ELSE <<i % unit>> \o NatOf(i \div unit)

RECURSIVE NatToInt(_)
NatToInt(x) == IF x = <<>> THEN 0 ELSE x[1] + unit * NatToInt(Tail(x))

Digit(x, i) == IF i <= Len(x) THEN x[i] ELSE 0

RECURSIVE NatLessFrom(_, _, _)
NatLessFrom(x, y, i) ==
    IF i = 0 THEN FALSE
    ELSE IF Digit(x, i) # Digit(y, i) THEN Digit(x, i) < Digit(y, i)
    ELSE NatLessFrom(x, y, i - 1)

NatLess(x, y) == NatLessFrom(x, y, IF Len(x) > Len(y) THEN Len(x) ELSE Len(y))

RECURSIVE NatAddFrom(_, _, _, _)
NatAddFrom(x, y, i, carry) ==
    IF i > Len(x) /\ i > Len(y)
    THEN IF carry = 0 THEN <<>> ELSE <<carry>>
    ELSE LET s == Digit(x, i) + Digit(y, i) + carry
         IN  <<s % unit>> \o NatAddFrom(x, y, i + 1, s \div unit)

NatAdd(x, y) == NatAddFrom(x, y, 1, 0)

\* x - y for y <= x
RECURSIVE NatSubFrom(_, _, _, _)
NatSubFrom(x, y, i, borrow) ==
    IF i > Len(x) THEN <<>>
    ELSE LET s == Digit(x, i) - Digit(y, i) - borrow
         IN  <<(s + unit) % unit>> \o NatSubFrom(x, y, i + 1, IF s < 0 THEN 1 ELSE 0)

NatSub(x, y) == NatNorm(NatSubFrom(x, y, 1, 0))

\* x * c for 0 <= c <= 2^20
RECURSIVE NatMulSmallFrom(_, _, _, _)
NatMulSmallFrom(x, c, i, carry) ==
    IF i > Len(x) THEN NatOf(carry)
    ELSE LET s == x[i] * c + carry
         IN  <<s % unit>> \o NatMulSmallFrom(x, c, i + 1, s \div unit)

NatMulSmall(x, c) == NatNorm(NatMulSmallFrom(x, c, 1, 0))

\* x * 1024^n
RECURSIVE NatShlDigits(_, _)
NatShlDigits(x, n) == IF n = 0 \/ x = <<>> THEN x ELSE <<0>> \o NatShlDigits(x, n - 1)

RECURSIVE NatMul(_, _)
NatMul(x, y) ==
    IF y = <<>> THEN <<>>
    ELSE NatAdd(NatMulSmall(x, y[1]), NatShlDigits(NatMul(x, Tail(y)), 1))

\* floor(x / c) and x mod c for 0 < c <= 2^20, from the highest digit down
RECURSIVE NatDivModFrom(_, _, _, _)
NatDivModFrom(x, c, i, rem) ==
    IF i = 0 THEN [q |-> <<>>, r |-> rem]
    ELSE LET cur == rem * unit + x[i]
             rest == NatDivModFrom(x, c, i - 1, cur % c)
         IN  [q |-> rest.q \o <<cur \div c>>, r |-> rest.r]

NatDivMod(x, c) ==
    LET dm == NatDivModFrom(x, c, Len(x), 0) IN [q |-> NatNorm(dm.q), r |-> dm.r]

RECURSIVE Pow2(_)
Pow2(s) == IF s = 0 THEN 1 ELSE 2 * Pow2(s - 1)

RECURSIVE BitsOf(_)
BitsOf(i) == IF i = 0 THEN 0 ELSE 1 + BitsOf(i \div 2)

NatBitLen(x) == IF x = <<>> THEN 0 ELSE 10 * (Len(x) - 1) + BitsOf(x[Len(x)])

\* x * 2^s
NatShl(x, s) == NatShlDigits(NatMulSmall(x, Pow2(s % 10)), s \div 10)

\* floor(x / 2^s)
NatShr(x, s) ==
    IF s \div 10 >= Len(x) THEN <<>>
    ELSE NatDivMod(SubSeq(x, s \div 10 + 1, Len(x)), Pow2(s % 10)).q

NatOdd(x) == x # <<>> /\ x[1] % 2 = 1

\* x / 2^s rounded to the nearest natural, a tie to the even one
NatRoundShr(x, s) ==
    IF s = 0 THEN x
    ELSE LET q == NatShr(x, s)
             r == NatSub(x, NatShl(q, s))
             half == NatShl(<<1>>, s - 1)
         IN  IF NatLess(half, r) \/ (r = half /\ NatOdd(q))
             THEN NatAdd(q, <<1>>) ELSE q

\* ---------------------------------------------------------------- float64
\* A finite non-negative float64 is m * 2^e with m below 2^53 (at most
\* 2^53 right after a rounding); arithmetic rounds to nearest, ties to
\* even, as IEEE 754 does.
FloatOf(m, e) == [m |-> m, e |-> e]

\* The float64 nearest to a natural.
RoundToFloat(x, e) ==
    IF NatBitLen(x) <= 53 THEN FloatOf(x, e)
    ELSE FloatOf(NatRoundShr(x, NatBitLen(x) - 53), e + NatBitLen(x) - 53)

\* The float64 nearest to n / d (strconv.ParseFloat of a decimal), d <= 2^20.
FloatOfRatio(n, d) ==
    IF n = <<>> THEN FloatOf(<<>>, 0)
    ELSE LET want == 56 + BitsOf(d) - NatBitLen(n)
             k == IF want > 0 THEN want ELSE 0
             dm == NatDivMod(NatShl(n, k), d)
             qs == NatAdd(NatShl(dm.q, 1), IF dm.r # 0 THEN <<1>> ELSE <<>>)
         IN  RoundToFloat(qs, 0 - k - 1)

FloatMul(a, b) == RoundToFloat(NatMul(a.m, b.m), a.e + b.e)

\* a / b for b a power of two, which is exact.
FloatDivPow2(a, b) == FloatOf(a.m, a.e - b.e - (NatBitLen(b.m) - 1))

\* The natural part of a float64 (truncation toward zero).
FloatTrunc(a) == IF a.e >= 0 THEN NatShl(a.m, a.e) ELSE NatShr(a.m, 0 - a.e)

\* a float64 rounded to a whole number, a tie to the even one
FloatRound(a) == IF a.e >= 0 THEN NatShl(a.m, a.e) ELSE NatRoundShr(a.m, 0 - a.e)

\* ------------------------------------------------------------------ int64
Int64Of(neg, mag) == [neg |-> neg, mag |-> mag]

Int64Zero == Int64Of(FALSE, <<>>)

\* 2^63
Int64Limit == NatShl(<<1>>, 63)

MaxInt64 == Int64Of(FALSE, NatSub(Int64Limit, <<1>>))

MinInt64 == Int64Of(TRUE, Int64Limit)

\* int64(f) for a non-negative float64: when the value does not fit, Go
\* leaves the result to the implementation (amd64 yields the minimum,
\* arm64 saturates).
FloatToInt64(a) ==
    IF NatLess(FloatTrunc(a), Int64Limit)
    THEN {Int64Of(FALSE, FloatTrunc(a))}
    ELSE {MinInt64, MaxInt64}

\* ---------------------------------------------------------------- strings
\* A string is the sequence of its characters.
DigitChars == <<"0", "1", "2", "3", "4", "5", "6", "7", "8", "9">>

UpperChars ==
    <<"A", "B", "C", "D", "E", "F", "G", "H", "I", "J", "K", "L", "M",
      "N", "O", "P", "Q", "R", "S", "T", "U", "V", "W", "X", "Y", "Z">>

LowerChars ==
    <<"a", "b", "c", "d", "e", "f", "g", "h", "i", "j", "k", "l", "m",
      "n", "o", "p", "q", "r", "s", "t", "u", "v", "w", "x", "y", "z">>

IsDigit(c) == \E i \in 1..10 : DigitChars[i] = c

DigitValue(c) == (CHOOSE i \in 1..10 : DigitChars[i] = c) - 1

IsLetter(c) == \E i \in 1..26 : UpperChars[i] = c \/ LowerChars[i] = c

IsSpace(c) == c = " "

ToUpperChar(c) ==
    IF \E i \in 1..26 : LowerChars[i] = c
    THEN UpperChars[CHOOSE i \in 1..26 : LowerChars[i] = c]
    ELSE c

\* strings.ToUpper, as one string
RECURSIVE ToUpper(_)
ToUpper(s) == IF s = <<>> THEN "" ELSE ToUpperChar(s[1]) \o ToUpper(Tail(s))

RECURSIVE TrimLeft(_)
TrimLeft(s) == IF s # <<>> /\ IsSpace(s[1]) THEN TrimLeft(Tail(s)) ELSE s

RECURSIVE TrimRight(_)
TrimRight(s) ==
    IF s # <<>> /\ IsSpace(s[Len(s)]) THEN TrimRight(SubSeq(s, 1, Len(s) - 1)) ELSE s

TrimSpace(s) == TrimRight(TrimLeft(s))

\* The length of the run of digits of s that starts at position i.
RECURSIVE DigitRun(_, _)
DigitRun(s, i) == IF i <= Len(s) /\ IsDigit(s[i]) THEN 1 + DigitRun(s, i + 1) ELSE 0

RECURSIVE SpaceRun(_, _)
SpaceRun(s, i) == IF i <= Len(s) /\ IsSpace(s[i]) THEN 1 + SpaceRun(s, i + 1) ELSE 0

\* The natural written by a sequence of digits.
RECURSIVE NatOfDigits(_)
NatOfDigits(ds) ==
    IF ds = <<>> THEN <<>>
    ELSE NatAdd(NatMulSmall(NatOfDigits(SubSeq(ds, 1, Len(ds) - 1)), 10),
                NatOf(DigitValue(ds[Len(ds)])))

\* The digits that write a natural, "0" for zero.
RECURSIVE DigitsOfNat(_)
DigitsOfNat(x) ==
    IF NatLess(x, <<10>>) THEN <<DigitChars[NatToInt(x) + 1]>>
    ELSE DigitsOfNat(NatDivMod(x, 10).q) \o <<DigitChars[NatDivMod(x, 10).r + 1]>>

RECURSIVE Pow10(_)
Pow10(n) == IF n = 0 THEN 1 ELSE 10 * Pow10(n - 1)

\* regexp ^([0-9]+(?:\.[0-9]+)?)\s*([A-Za-z]*)$ : the two groups, or no match
FindStringSubmatch(s) ==
    LET ip == DigitRun(s, 1)
        fp == IF ip + 1 <= Len(s) /\ s[ip + 1] = "." THEN DigitRun(s, ip + 2) ELSE 0
        numEnd == IF fp > 0 THEN ip + 1 + fp ELSE ip
        unitStart == numEnd + SpaceRun(s, numEnd + 1) + 1
        letters == SubSeq(s, unitStart, Len(s))
    IN  IF ip >= 1 /\ \A i \in 1..Len(letters) : IsLetter(letters[i])
        THEN [ok |-> TRUE, int |-> SubSeq(s, 1, ip),
              frac |-> SubSeq(s, ip + 2, ip + 1 + fp), unit |-> letters]
        ELSE [ok |-> FALSE, int |-> <<>>, frac |-> <<>>, unit |-> <<>>]

\* ------------------------------------------------------------- SizeSpec
\* A float64 that a decimal wrote is kept as the pair <<n, d>> standing for
\* n/d; <<0, 0>> is NaN.
ZeroNum == <<0, 1>>

NaN == <<0, 0>>

SizeSpecOf(bytes, pct) == [Bytes |-> bytes, Percent |-> pct]

\* s.Percent > 0, which NaN is not
IsPercent(s) == s.Percent[2] # 0 /\ s.Percent[1] > 0

\* s.Bytes == 0 && s.Percent == 0, which NaN is not
IsZero(s) == s.Bytes = 0 /\ s.Percent[2] # 0 /\ s.Percent[1] = 0

\* floor(a * n / d) for a, n >= 0 and d > 0, without leaving 32 bits
FloorMulDiv(a, n, d) == (a \div d) * n + ((a % d) * n) \div d

\* ------------------------------------------------------------ ParseSize
RECURSIVE NatPow(_, _)
NatPow(b, e) == IF e = 0 THEN <<1>> ELSE NatMulSmall(NatPow(b, e - 1), b)

UnitMultiplierWithPeta(u) ==
    CASE u \in {"", "B"} -> <<1>>
      [] u \in {"KIB", "K"} -> NatPow(1024, 1)
      [] u \in {"MIB", "M"} -> NatPow(1024, 2)
      [] u \in {"GIB", "G"} -> NatPow(1024, 3)
      [] u \in {"TIB", "T"} -> NatPow(1024, 4)
      [] u \in {"PIB", "P"} -> NatPow(1024, 5)
      [] u = "KB" -> NatPow(1000, 1)
      [] u = "MB" -> NatPow(1000, 2)
      [] u = "GB" -> NatPow(1000, 3)
      [] u = "TB" -> NatPow(1000, 4)
      [] OTHER -> <<>>

\* The multiplier of an upper-cased unit (size.go:82-114), zero for a unit
\* outside the table.
UnitMultiplier(u) ==
    CASE u \in {"", "B"} -> <<1>>
      [] u \in {"KIB", "K"} -> NatPow(1024, 1)
      [] u \in {"MIB", "M"} -> NatPow(1024, 2)
      [] u \in {"GIB", "G"} -> NatPow(1024, 3)
      [] u \in {"TIB", "T"} -> NatPow(1024, 4)
      [] u = "KB" -> NatPow(1000, 1)
      [] u = "MB" -> NatPow(1000, 2)
      [] u = "GB" -> NatPow(1000, 3)
      [] u = "TB" -> NatPow(1000, 4)
      [] OTHER -> <<>>

SizeResult(err, bytes) == [err |-> err, bytes |-> bytes]

\* The possible results of ParseSize(s): one, unless the product leaves
\* int64.  (strconv.ParseFloat fails on the digits only beyond 1.8e308.)
ParseSize(s) ==
    LET t == TrimSpace(s)
        matches == FindStringSubmatch(t)
        num == FloatOfRatio(NatOfDigits(matches.int \o matches.frac), Pow10(Len(matches.frac)))
        multiplier == UnitMultiplier(ToUpper(matches.unit))
    IN  IF t = <<>> THEN {SizeResult("empty size string", Int64Zero)}
        ELSE IF ~matches.ok THEN {SizeResult("invalid size format", Int64Zero)}
        ELSE IF multiplier = <<>> THEN {SizeResult("unknown unit", Int64Zero)}
        ELSE {SizeResult("", b) : b \in FloatToInt64(FloatMul(num, RoundToFloat(multiplier, 0)))}

\* ----------------------------------------------------------- FormatSize
UnitLetters == <<"K", "M", "G", "T", "P", "E">>

RECURSIVE FormatLoopStrict(_, _, _)
FormatLoopStrict(n, div, exp) ==
    IF NatLess(NatOf(unit), n)
    THEN FormatLoopStrict(NatDivMod(n, unit).q, NatMulSmall(div, unit), exp + 1)
    ELSE [div |-> div, exp |-> exp]

\* The loop of size.go:125-129 from n on: div and exp when it ends.
RECURSIVE FormatLoop(_, _, _)
FormatLoop(n, div, exp) ==
    IF ~NatLess(n, NatOf(unit))
    THEN FormatLoop(NatDivMod(n, unit).q, NatMulSmall(div, unit), exp + 1)
    ELSE [div |-> div, exp |-> exp]

\* "%.1f": the tenths of a float64, rounded to nearest, a tie to even.
FormatTenths(a) == FloatRound(FloatOf(NatMulSmall(a.m, 10), a.e))

\* FormatSize(bytes); indexing "KMGTPE" beyond its end panics.
FormatSize(bytes) ==
    IF bytes.neg \/ NatLess(bytes.mag, NatOf(unit))
    THEN [panic |-> FALSE,
          text |-> (IF bytes.neg THEN <<"-">> ELSE <<>>) \o DigitsOfNat(bytes.mag) \o <<" ", "B">>]
    ELSE LET loop == FormatLoop(NatDivMod(bytes.mag, unit).q, NatOf(unit), 0)
             tenths == FormatTenths(FloatDivPow2(RoundToFloat(bytes.mag, 0),
                                                 RoundToFloat(loop.div, 0)))
         IN  IF loop.exp + 1 > Len(UnitLetters)
             THEN [panic |-> TRUE, text |-> <<>>]
             ELSE [panic |-> FALSE,
                   text |-> DigitsOfNat(NatDivMod(tenths, 10).q)
                            \o <<".", DigitChars[NatDivMod(tenths, 10).r + 1], " ">>
                            \o <<UnitLetters[loop.exp + 1], "i", "B">>]

\* formatSize(bytes) of the cache, the same code as FormatSize.
formatSize(bytes) ==
    IF bytes.neg \/ NatLess(bytes.mag, NatOf(unit))
    THEN [panic |-> FALSE,
          text |-> (IF bytes.neg THEN <<"-">> ELSE <<>>) \o DigitsOfNat(bytes.mag) \o <<" ", "B">>]
    ELSE LET loop == FormatLoop(NatDivMod(bytes.mag, unit).q, NatOf(unit), 0)
             tenths == FormatTenths(FloatDivPow2(RoundToFloat(bytes.mag, 0),
                                                 RoundToFloat(loop.div, 0)))
         IN  IF loop.exp + 1 > Len(UnitLetters)
             THEN [panic |-> TRUE, text |-> <<>>]
             ELSE [panic |-> FALSE,
                   text |-> DigitsOfNat(NatDivMod(tenths, 10).q)
                            \o <<".", DigitChars[NatDivMod(tenths, 10).r + 1], " ">>
                            \o <<UnitLetters[loop.exp + 1], "i", "B">>]

\* -------------------------------------------------------- ParseSizeSpec
FloatResult(err, kind, neg, n, d) ==
    [err |-> err, kind |-> kind, neg |-> neg, n |-> n, d |-> d]

\* strconv.ParseFloat(s, 64) of a decimal with an optional sign, fraction
\* and exponent, or of "nan", "inf", "infinity" in any case; hexadecimal
\* forms are left out.  The number is n/d, at most six digits after the
\* point or in the exponent's effect.
ParseFloat(s) ==
    LET signed == s # <<>> /\ s[1] \in {"+", "-"}
        neg == s # <<>> /\ s[1] = "-"
        body == IF signed THEN Tail(s) ELSE s
        ip == DigitRun(body, 1)
        dot == ip + 1 <= Len(body) /\ body[ip + 1] = "."
        fp == IF dot THEN DigitRun(body, ip + 2) ELSE 0
        mantEnd == ip + (IF dot THEN 1 + fp ELSE 0)
        n == NatOfDigits(SubSeq(body, 1, ip) \o SubSeq(body, ip + 2, ip + 1 + fp))
        hasExp == mantEnd + 1 <= Len(body) /\ body[mantEnd + 1] \in {"e", "E"}
        expSigned == mantEnd + 2 <= Len(body) /\ body[mantEnd + 2] \in {"+", "-"}
        expNeg == mantEnd + 2 <= Len(body) /\ body[mantEnd + 2] = "-"
        expStart == mantEnd + (IF expSigned THEN 3 ELSE 2)
        expLen == DigitRun(body, expStart)
        x == NatToInt(NatOfDigits(SubSeq(body, expStart, Len(body))))
    IN  IF ~signed /\ ToUpper(body) = "NAN"
        THEN FloatResult(FALSE, "nan", FALSE, <<>>, 1)
        ELSE IF ToUpper(body) \in {"INF", "INFINITY"}
        THEN FloatResult(FALSE, "inf", neg, <<>>, 1)
        ELSE IF ip + fp >= 1 /\ mantEnd = Len(body)
        THEN FloatResult(FALSE, "num", neg, n, Pow10(fp))
        ELSE IF ip + fp >= 1 /\ hasExp /\ expLen >= 1 /\ expStart + expLen - 1 = Len(body)
        THEN IF expNeg
             THEN FloatResult(FALSE, "num", neg, n, Pow10(fp + x))
             ELSE FloatResult(FALSE, "num", neg, NatMulSmall(n, Pow10(x)), Pow10(fp))
        ELSE FloatResult(TRUE, "", FALSE, <<>>, 1)

SpecResult(err, spec) == [err |-> err, spec |-> spec]

\* The possible results of ParseSizeSpec(s); Bytes is an int64.
ParseSizeSpec(s) ==
    LET t == TrimSpace(s)
        pct == ParseFloat(TrimSpace(SubSeq(t, 1, Len(t) - 1)))
        none == SizeSpecOf(Int64Zero, ZeroNum)
        tooLow == \/ pct.kind = "num" /\ (pct.neg \/ pct.n = <<>>)
                  \/ pct.kind = "inf" /\ pct.neg
        tooHigh == \/ pct.kind = "num" /\ ~pct.neg /\ NatLess(NatOf(100 * pct.d), pct.n)
                   \/ pct.kind = "inf" /\ ~pct.neg
    IN  IF t = <<>> THEN {SpecResult("empty size string", none)}
        ELSE IF t[Len(t)] = "%"
        THEN IF pct.err THEN {SpecResult("invalid percentage", none)}
             ELSE IF tooLow \/ tooHigh
             THEN {SpecResult("percentage must be between 0 and 100", none)}
             ELSE {SpecResult("", SizeSpecOf(Int64Zero,
                        IF pct.kind = "nan" THEN NaN ELSE <<NatToInt(pct.n), pct.d>>))}
        ELSE {SpecResult(r.err, SizeSpecOf(r.bytes, ZeroNum)) : r \in ParseSize(t)}

\* An int64 small enough for the integers of the checker.
Int64ToInt(v) == IF v.neg THEN 0 - NatToInt(v.mag) ELSE NatToInt(v.mag)

\* ------------------------------------------------------------ getMaxSize
totalUsableAlwaysDefault(spec, available) ==
    FloorMulDiv(available, DefaultMaxSizePercent, 100)

\* The value of totalUsable at cache.go:203, before the reserve is enforced.
totalUsableRaw(spec, available) ==
    IF ~IsZero(spec)
    THEN FloorMulDiv(available, spec.Percent[1], spec.Percent[2] * 100)
    ELSE FloorMulDiv(available, DefaultMaxSizePercent, 100)

\* cache.go:205-211
enforceReserve(available, totalUsable) ==
    LET t1 == IF available - totalUsable < MinFreeSpace
              THEN available - MinFreeSpace
              ELSE totalUsable
    IN  IF t1 < 0 THEN 0 ELSE t1

\* statOk = FALSE is syscall.Statfs failing.
getMaxSize(spec, statOk, available) ==
    IF ~statOk THEN 0
    ELSE IF ~IsZero(spec) /\ ~IsPercent(spec) THEN spec.Bytes
    ELSE enforceReserve(available, totalUsableRaw(spec, available))

\* ------------------------------------------------------------------ paths
\* Paths are texts as the code holds them; a cleaned path is kept as the
\* record of its being absolute and of its names.
\* The pieces of s between its slashes, from position i on, cur being the
\* piece under way.
RECURSIVE SplitFrom(_, _, _)
SplitFrom(s, i, cur) ==
    IF i > Len(s) THEN <<cur>>
    ELSE IF s[i] = "/" THEN <<cur>> \o SplitFrom(s, i + 1, <<>>)
    ELSE SplitFrom(s, i + 1, Append(cur, s[i]))

\* A piece that names something: not empty and not ".".
IsName(c) == c # <<>> /\ c # <<".">>

\* filepath.Clean
Clean(s) ==
    [abs |-> s # <<>> /\ s[1] = "/", names |-> SelectSeq(SplitFrom(s, 1, <<>>), IsName)]

\* The names of a path put together with slashes.
RECURSIVE JoinNames(_)
JoinNames(names) ==
    IF names = <<>> THEN <<>>
    ELSE IF Len(names) = 1 THEN names[1]
    ELSE names[1] \o <<"/">> \o JoinNames(Tail(names))

\* The text of a cleaned path.
PathText(p) ==
    IF p.abs THEN <<"/">> \o JoinNames(p.names)
    ELSE IF p.names = <<>> THEN <<".">>
    ELSE JoinNames(p.names)

\* filepath.Join(p, name), as WalkDir builds the paths under its root
Join(p, name) == [p EXCEPT !.names = Append(@, name)]

\* filepath.Dir of a cleaned path
Dir(p) == [p EXCEPT !.names = SubSeq(@, 1, Len(@) - 1)]

\* The first n names of a and b agree.
SameStart(a, b, n) == n <= Len(a) /\ n <= Len(b) /\ SubSeq(a, 1, n) = SubSeq(b, 1, n)

\* filepath.Rel(base, targ) of cleaned paths: what leads from base to targ,
\* up by ".." where targ is not under base; an error when only one of the
\* two is absolute.
Rel(base, targ) ==
    LET c == CHOOSE n \in 0..Len(base.names) :
                 /\ SameStart(base.names, targ.names, n)
                 /\ \A m \in (n + 1)..Len(base.names) : ~SameStart(base.names, targ.names, m)
        names == [j \in 1..(Len(base.names) - c) |-> <<".", ".">>]
                 \o SubSeq(targ.names, c + 1, Len(targ.names))
    IN  IF base.abs # targ.abs THEN [ok |-> FALSE, text |-> <<>>]
        ELSE [ok |-> TRUE, text |-> IF names = <<>> THEN <<".">> ELSE JoinNames(names)]

\* What rel[:len(rel)-4] does to a text shorter than four bytes.
KeyPanic == <<"!", "p", "a", "n", "i", "c">>

pathToKeyKeepsSuffix(root, path) ==
    LET rel == Rel(Clean(root), path)
    IN  IF ~rel.ok THEN PathText(path) ELSE rel.text

\* c.pathToKey(path), c.root being root
pathToKey(root, path) ==
    LET rel == Rel(Clean(root), path)
    IN  IF ~rel.ok THEN PathText(path)
        ELSE IF Len(rel.text) < 4 THEN KeyPanic
        ELSE SubSeq(rel.text, 1, Len(rel.text) - 4)

\* The names repositories go by, in lexical order.
NameLetters == <<"a", "b", "c", "d", "e", "f">>

\* The fingerprint host/owner/name that key k stands for; the owner ends
\* in .git and every other name holds a dot.
Fingerprint(k) ==
    <<"h", "/", "o", ".", "g", "i", "t", "/", NameLetters[k]>>
    \o (IF k % 2 = 0 THEN <<".", "x">> ELSE <<>>)

\* Resolve(fingerprint): the text <root>/<fingerprint>.git
Resolve(root, f) == root \o <<"/">> \o f \o <<".", "g", "i", "t">>

\* The path at which the walk of the root finds the mirror of f: WalkDir
\* builds it with filepath.Join, which cleans it.
WalkPath(root, f) == Clean(Resolve(root, f))

\* The key of the index that a text is, 0 when it is no fingerprint.
KeyOf(text) ==
    IF \E k \in Keys : Fingerprint(k) = text
    THEN CHOOSE k \in Keys : Fingerprint(k) = text
    ELSE 0

\* ------------------------------------------------------------ file system
NoMirror == [present |-> FALSE, bytes |-> 0, mtime |-> ZeroTime]

RECURSIVE SumBytes(_)
SumBytes(S) ==
    IF S = {} THEN 0
    ELSE LET k == CHOOSE x \in S : TRUE
         IN  mirrors[k].bytes + (IF tmp[k] THEN 1 ELSE 0) + SumBytes(S \ {k})

\* The bytes a fresh clone of repository k occupies.
CloneBytes(k) == IF k = 1 THEN 2 ELSE 1

\* getDirSize(c.root): every regular file under the root.
getDirSizeRoot == SumBytes(Keys)

\* getDirSize(repo.path): 0 when the path is gone (the walk skips errors).
getDirSizeRepo(k) == mirrors[k].bytes

\* What os.Stat returns: the mtime, or an error.
StatOk(t) == [ok |-> TRUE, mtime |-> t]

StatErr == [ok |-> FALSE, mtime |-> ZeroTime]

\* c.accessTime.Load(k) on the map m
Load(m, k) == IF k \in DOMAIN m THEN [ok |-> TRUE, t |-> m[k]] ELSE [ok |-> FALSE, t |-> ZeroTime]

accessTimeFromDirFirst(entry, head, dir) ==
    IF entry.ok THEN entry.t
    ELSE IF dir.ok THEN dir.mtime
    ELSE IF head.ok THEN head.mtime
    ELSE ZeroTime

\* getAccessTime from what it reads: the entry of the index, the stat of
\* HEAD and the stat of the directory.
accessTimeFrom(entry, head, dir) ==
    IF entry.ok THEN entry.t
    ELSE IF head.ok THEN head.mtime
    ELSE IF dir.ok THEN dir.mtime
    ELSE ZeroTime

\* os.Stat of the mirror of k or of its HEAD: written together by the
\* synchronization, gone together.
Stat(k) == IF mirrors[k].present THEN StatOk(mirrors[k].mtime) ELSE StatErr

\* c.getAccessTime(key, path); path stands for the mirror by its number.
getAccessTime(key, path) == accessTimeFrom(Load(accessTime, key), Stat(path), Stat(path))

\* listReposWithAccessTime: WalkDir visits paths in lexical order.
\* The root paths of the caches whose sweeps derive keys: cleaned, with a
\* trailing slash, relative, and relative from ".".
KeyRoots ==
    { <<"/", "d", "/", "m">>,
      <<"/", "d", "/", "m", "/">>,
      <<"m">>,
      <<".", "/", "m">> }

\* key := c.pathToKey(path) for the mirror of fingerprint k as the walk
\* from root meets it.
KeyAt(root, k) == KeyOf(pathToKey(root, WalkPath(root, Fingerprint(k))))

\* The same, tabulated for the roots above.
KeyTable == [root \in KeyRoots |-> [k \in Keys |-> KeyAt(root, k)]]

RECURSIVE listFrom(_)
listFrom(k) ==
    IF k > NumKeys THEN <<>>
    ELSE IF mirrors[k].present
         THEN LET key == IF fs.root \in KeyRoots THEN KeyTable[fs.root][k]
                         ELSE KeyAt(fs.root, k)
              IN  <<[key |-> key, path |-> k, accessTime |-> getAccessTime(key, k)]>>
                  \o listFrom(k + 1)
         ELSE listFrom(k + 1)

listReposWithAccessTime == listFrom(1)

\* ---------------------------------------------------------------- sorting
BeforeNewestFirst(t1, t2) == t2 < t1

\* time.Time.Before
Before(t1, t2) == t1 < t2

IsSortedBy(s) ==
    \A i, j \in 1..Len(s) : i < j => ~Before(s[j].accessTime, s[i].accessTime)

Perms(n) == {p \in [1..n -> 1..n] : \A i, j \in 1..n : p[i] = p[j] => i = j}

\* sort.Slice is not stable: any arrangement ordered by access time may result.
SortedOrders(s) ==
    {[i \in 1..Len(s) |-> s[p[i]]] : p \in {q \in Perms(Len(s)) :
        IsSortedBy([i \in 1..Len(s) |-> s[q[i]]])}}

targetSizeNoMargin(maxBytes) == maxBytes

\* int64(float64(maxBytes) * 0.90)
targetSizeOf(maxBytes) == FloorMulDiv(maxBytes, 9, 10)

\* ----------------------------------------------------------------- frames
\* The locals of one MaybeEvict call, and what it did so far: failed holds
\* the keys whose removal failed, unmeasured the keys whose measuring met
\* an error, dirty says whether anything else wrote
\* under the root since the call measured it.  pc "within" is the early
\* return (cache.go:55, 66), pc "done" the return after the loop.
IdleFrame ==
    [pc |-> "idle", maxBytes |-> 0, currentSize |-> 0, targetSize |-> 0,
     repos |-> <<>>, idx |-> 1, failed |-> {}, dirty |-> FALSE, unmeasured |-> {}]

\* The keys a sweep has removed so far.
Evicted(f) == {f.repos[i].path : i \in 1..(f.idx - 1)} \ f.failed

\* What statfs may report as available: below the reserve, and just above.
AvailValues == {1, MinFreeSpace + 1, MinFreeSpace + 3}

BudgetIdle == [pc |-> "off", available |-> 0, statOk |-> TRUE, raw |-> 0, out |-> 0]

\* No size is being parsed or formatted.
SizeIdle == [pc |-> "off"]

\* The directory tree is not looked at; the cache has a root all the same.
FsIdle == [pc |-> "off", root |-> <<"/", "d", "/", "m">>]

SweepConfigs ==
    { <<"unset", SizeSpecOf(0, ZeroNum)>>,
      <<"abs", SizeSpecOf(3, ZeroNum)>> }

NewRequest ==
    [pc |-> "new", key |-> 0, endpoint |-> "", epoch |-> 0, led |-> FALSE,
     kind |-> "none", outcome |-> "", result |-> ""]

NoFlight == [kind |-> "none", state |-> "none", waiters |-> {}, epoch |-> 0]

\* No request has arrived yet.
DispatchIdle ==
    /\ requests = [r \in Requests |-> NewRequest]
    /\ flights = [k \in Keys |-> NoFlight]
    /\ running = [k \in Keys |-> 0]
    /\ epoch = [k \in Keys |-> 0]

Init ==
    /\ \E c \in SweepConfigs : cfgKind = c[1] /\ maxSize = c[2]
    /\ DispatchIdle
    /\ accessTime = <<>>
    /\ mu = 0
    /\ now = 1
    /\ mirrors = [k \in Keys |-> NoMirror]
    /\ tmp = [k \in Keys |-> FALSE]
    /\ readers = [k \in Keys |-> 0]
    /\ syncing = [k \in Keys |-> FALSE]
    /\ sw = [s \in Sweepers |-> IdleFrame]
    /\ sz = SizeIdle
    /\ fs = FsIdle
    /\ bg = BudgetIdle

\* ------------------------------------------------------------------ clock
Tick ==
    /\ now < MaxTime
    /\ now' = now + 1
    /\ UNCHANGED <<bg, sz, fs, dispatchVars, maxSize, cfgKind, accessTime, mu, mirrors, tmp, readers, syncing, sw>>

\* ------------------------------------------------------------------ Touch
Store(m, k, t) == [x \in DOMAIN m \cup {k} |-> IF x = k THEN t ELSE m[x]]

Delete(m, k) == [x \in DOMAIN m \ {k} |-> m[x]]

TouchUnderLock(k) ==
    /\ mu = 0
    /\ accessTime' = Store(accessTime, k, now)
    /\ UNCHANGED <<bg, sz, fs, dispatchVars, maxSize, cfgKind, mu, now, mirrors, tmp, readers, syncing, sw>>

\* c.accessTime.Store(key, time.Now()): no lock is taken.
Touch(k) ==
    /\ accessTime' = Store(accessTime, k, now)
    /\ UNCHANGED <<bg, sz, fs, dispatchVars, maxSize, cfgKind, mu, now, mirrors, tmp, readers, syncing, sw>>

\* A write under the root by anyone but the sweep itself is noted in the
\* frame of every sweep that has measured and not yet returned.
Measuring(f) == f.pc \in {"list", "loop", "done"}

NoteWrite == [s \in Sweepers |-> IF Measuring(sw[s]) THEN [sw[s] EXCEPT !.dirty = TRUE] ELSE sw[s]]

\* ------------------------------------------- leases and synchronization
\* The per-fingerprint lease and the synchronizer, as far as the cache sees
\* them: which mirrors are being read or synchronized, and what a
\* synchronization writes under the root.
ReadAcquire(k) ==
    /\ ~syncing[k]
    /\ readers[k] < MaxReaders
    /\ readers' = [readers EXCEPT ![k] = @ + 1]
    /\ UNCHANGED <<bg, sz, fs, dispatchVars, maxSize, cfgKind, accessTime, mu, now, mirrors, tmp, syncing, sw>>

ReadRelease(k) ==
    /\ readers[k] > 0
    /\ readers' = [readers EXCEPT ![k] = @ - 1]
    /\ UNCHANGED <<bg, sz, fs, dispatchVars, maxSize, cfgKind, accessTime, mu, now, mirrors, tmp, syncing, sw>>

\* First-time: the clone goes to a temporary sibling directory.
SyncBegin(k) ==
    /\ ~syncing[k]
    /\ syncing' = [syncing EXCEPT ![k] = TRUE]
    /\ tmp' = [tmp EXCEPT ![k] = ~mirrors[k].present]
    /\ sw' = IF mirrors[k].present THEN sw ELSE NoteWrite
    /\ UNCHANGED <<bg, sz, fs, dispatchVars, maxSize, cfgKind, accessTime, mu, now, mirrors, readers>>

\* First-time success renames the temporary directory into place.
CloneSucceed(k) ==
    /\ syncing[k] /\ tmp[k]
    /\ mirrors' = [mirrors EXCEPT ![k] = [present |-> TRUE, bytes |-> CloneBytes(k), mtime |-> now]]
    /\ tmp' = [tmp EXCEPT ![k] = FALSE]
    /\ syncing' = [syncing EXCEPT ![k] = FALSE]
    /\ sw' = NoteWrite
    /\ UNCHANGED <<bg, sz, fs, dispatchVars, maxSize, cfgKind, accessTime, mu, now, readers>>

\* A refresh fetches into the existing mirror.
FetchSucceed(k) ==
    /\ syncing[k] /\ ~tmp[k] /\ mirrors[k].present
    /\ mirrors[k].bytes < MaxRepoBytes
    /\ mirrors' = [mirrors EXCEPT ![k].bytes = @ + 1]
    /\ syncing' = [syncing EXCEPT ![k] = FALSE]
    /\ sw' = NoteWrite
    /\ UNCHANGED <<bg, sz, fs, dispatchVars, maxSize, cfgKind, accessTime, mu, now, tmp, readers>>

\* Failure: the temporary directory is removed, an existing mirror is kept.
SyncFail(k) ==
    /\ syncing[k]
    /\ tmp' = [tmp EXCEPT ![k] = FALSE]
    /\ syncing' = [syncing EXCEPT ![k] = FALSE]
    /\ sw' = IF tmp[k] THEN NoteWrite ELSE sw
    /\ UNCHANGED <<bg, sz, fs, dispatchVars, maxSize, cfgKind, accessTime, mu, now, mirrors, readers>>

\* ------------------------------------------------------------- MaybeEvict
SweepCall(s) ==
    /\ sw[s].pc = "idle"
    /\ sw' = [sw EXCEPT ![s].pc = "lock"]
    /\ UNCHANGED <<bg, sz, fs, dispatchVars, maxSize, cfgKind, accessTime, mu, now, mirrors, tmp, readers, syncing>>

LockNeverWaits == TRUE

\* c.mu.Lock() returns only when no one holds the mutex.
LockFree == mu = 0

SweepLock(s) ==
    /\ sw[s].pc = "lock"
    /\ LockFree
    /\ mu' = s
    /\ sw' = [sw EXCEPT ![s].pc = "budget"]
    /\ UNCHANGED <<bg, sz, fs, dispatchVars, maxSize, cfgKind, accessTime, now, mirrors, tmp, readers, syncing>>

WithinBudgetOnlyZero(maxBytes, currentSize) == maxBytes <= 0

\* The two early returns: no budget, or usage within it.
WithinBudget(maxBytes, currentSize) == maxBytes <= 0 \/ currentSize <= maxBytes

SweepBudget(s) ==
    /\ sw[s].pc = "budget"
    /\ \E statOk \in BOOLEAN, available \in AvailValues :
         LET maxBytes == getMaxSize(maxSize, statOk, available)
             currentSize == IF maxBytes <= 0 THEN 0 ELSE getDirSizeRoot
         IN  sw' = [sw EXCEPT ![s].maxBytes = maxBytes,
                              ![s].currentSize = currentSize,
                              ![s].pc = IF WithinBudget(maxBytes, currentSize)
                                        THEN "within" ELSE "list"]
    /\ UNCHANGED <<bg, sz, fs, dispatchVars, maxSize, cfgKind, accessTime, mu, now, mirrors, tmp, readers, syncing>>

\* listReposWithAccessTime, sort.Slice, targetSize
SweepList(s) ==
    /\ sw[s].pc = "list"
    /\ \E repos \in {listReposWithAccessTime} : \E order \in SortedOrders(repos) :
         sw' = [sw EXCEPT ![s].repos = order,
                          ![s].targetSize = targetSizeOf(sw[s].maxBytes),
                          ![s].idx = 1,
                          ![s].pc = "loop"]
    /\ UNCHANGED <<bg, sz, fs, dispatchVars, maxSize, cfgKind, accessTime, mu, now, mirrors, tmp, readers, syncing>>

LoopDone(f) == f.idx > Len(f.repos) \/ f.currentSize <= f.targetSize

\* One iteration in which os.RemoveAll succeeds.
SweepEvict(s) ==
    /\ sw[s].pc = "loop"
    /\ ~LoopDone(sw[s])
    /\ LET repo == sw[s].repos[sw[s].idx]
           repoSize == getDirSizeRepo(repo.path)
       IN  /\ mirrors' = [mirrors EXCEPT ![repo.path] = NoMirror]
           /\ accessTime' = Delete(accessTime, repo.key)
           /\ sw' = [sw EXCEPT ![s].currentSize = @ - repoSize,
                                ![s].idx = @ + 1]
    /\ UNCHANGED <<bg, sz, fs, dispatchVars, maxSize, cfgKind, mu, now, tmp, readers, syncing>>

\* One iteration in which os.RemoveAll fails: the mirror is skipped.
SweepRemoveFail(s) ==
    /\ sw[s].pc = "loop"
    /\ ~LoopDone(sw[s])
    /\ LET repo == sw[s].repos[sw[s].idx]
       IN  /\ mirrors[repo.path].present
           /\ sw' = [sw EXCEPT ![s].idx = @ + 1,
                                ![s].failed = @ \cup {repo.path}]
    /\ UNCHANGED <<bg, sz, fs, dispatchVars, maxSize, cfgKind, accessTime, mu, now, mirrors, tmp, readers, syncing>>

\* One iteration in which the walk of getDirSize meets an error, on the
\* directory or on a file of it: the callback skips it and returns nil, so
\* getDirSize returns the bytes counted so far with a nil error, and the
\* iteration goes on to remove the mirror.
SweepEvictUnmeasured(s) ==
    /\ sw[s].pc = "loop"
    /\ ~LoopDone(sw[s])
    /\ LET repo == sw[s].repos[sw[s].idx]
       IN  /\ mirrors[repo.path].present
           /\ \E repoSize \in 0..(getDirSizeRepo(repo.path) - 1) :
                 sw' = [sw EXCEPT ![s].currentSize = @ - repoSize,
                                  ![s].idx = @ + 1,
                                  ![s].unmeasured = @ \cup {repo.path}]
           /\ mirrors' = [mirrors EXCEPT ![repo.path] = NoMirror]
           /\ accessTime' = Delete(accessTime, repo.key)
    /\ UNCHANGED <<bg, sz, fs, dispatchVars, maxSize, cfgKind, mu, now, tmp, readers, syncing>>

\* The loop ends: the target is met or the list is exhausted.
SweepLoopExit(s) ==
    /\ sw[s].pc = "loop"
    /\ LoopDone(sw[s])
    /\ sw' = [sw EXCEPT ![s].pc = "done"]
    /\ UNCHANGED <<bg, sz, fs, dispatchVars, maxSize, cfgKind, accessTime, mu, now, mirrors, tmp, readers, syncing>>

\* A return that leaves the mutex held.
SweepReturnNoUnlock(s) ==
    /\ sw[s].pc \in {"within", "done"}
    /\ sw' = [sw EXCEPT ![s] = IdleFrame]
    /\ UNCHANGED <<bg, sz, fs, dispatchVars, maxSize, cfgKind, accessTime, mu, now, mirrors, tmp, readers, syncing>>

\* return: the deferred c.mu.Unlock()
SweepReturn(s) ==
    /\ sw[s].pc \in {"within", "done"}
    /\ mu' = 0
    /\ sw' = [sw EXCEPT ![s] = IdleFrame]
    /\ UNCHANGED <<bg, sz, fs, dispatchVars, maxSize, cfgKind, accessTime, now, mirrors, tmp, readers, syncing>>

\* The rename that ends a first-time synchronization, seen from the cache:
\* a mirror appears under the root in one step.
MirrorAppears(k) ==
    /\ ~mirrors[k].present /\ ~syncing[k]
    /\ mirrors' = [mirrors EXCEPT ![k] = [present |-> TRUE, bytes |-> CloneBytes(k), mtime |-> now]]
    /\ sw' = NoteWrite
    /\ UNCHANGED <<bg, sz, fs, dispatchVars, maxSize, cfgKind, accessTime, mu, now, tmp, readers, syncing>>

SweepStep(s) ==
    \/ SweepCall(s)
    \/ SweepLock(s)
    \/ SweepBudget(s)
    \/ SweepList(s)
    \/ SweepEvict(s)
    \/ SweepRemoveFail(s)
    \/ SweepLoopExit(s)
    \/ SweepReturn(s)

\* The cache under a running clock: mirrors appear, are touched and swept.
Next ==
    \/ Tick
    \/ \E k \in Keys : Touch(k)
    \/ \E k \in Keys : MirrorAppears(k)
    \/ SweepStep(1)

Spec == Init /\ [][Next]_vars

\* The cache beside the leases and the synchronizer, the clock standing still.
NextLease ==
    \/ \E k \in Keys : ReadAcquire(k)
    \/ \E k \in Keys : ReadRelease(k)
    \/ \E k \in Keys : SyncBegin(k)
    \/ \E k \in Keys : CloneSucceed(k)
    \/ \E k \in Keys : FetchSucceed(k)
    \/ \E k \in Keys : SyncFail(k)
    \/ \E s \in Sweepers : SweepStep(s)

SpecLease == Init /\ [][NextLease]_vars

\* The cache on a file system whose stat may fail under a sweep, the clock
\* standing still.
NextFault ==
    \/ \E k \in Keys : Touch(k)
    \/ \E k \in Keys : MirrorAppears(k)
    \/ \E s \in Sweepers : SweepStep(s)
    \/ \E s \in Sweepers : SweepEvictUnmeasured(s)

SpecFault == Init /\ [][NextFault]_vars

\* What a MaybeEvict call does between c.mu.Lock() and its return: none of
\* it waits for anything.
SweepRun(s) ==
    \/ SweepBudget(s)
    \/ SweepList(s)
    \/ SweepEvict(s)
    \/ SweepRemoveFail(s)
    \/ SweepEvictUnmeasured(s)
    \/ SweepLoopExit(s)
    \/ SweepReturn(s)

\* Sweeps called at any time beside appearing mirrors.
NextLive ==
    \/ \E k \in Keys : MirrorAppears(k)
    \/ \E s \in Sweepers : SweepCall(s)
    \/ \E s \in Sweepers : SweepLock(s)
    \/ \E s \in Sweepers : SweepRun(s)

\* The same under a fair scheduler: a goroutine that can run does run, and
\* a goroutine blocked in c.mu.Lock() gets the mutex if it is free again
\* and again (sync.Mutex hands it to a starving waiter).
SpecLive ==
    /\ Init
    /\ [][NextLive]_vars
    /\ \A s \in Sweepers : WF_vars(SweepRun(s)) /\ SF_vars(SweepLock(s))

\* ------------------------------------------------- getMaxSize, by steps
\* The size strings a configuration may hold; each parses without error.
BudgetInputs ==
    { <<"0">>,
      <<"3", "B">>,
      <<"0", ".", "5", "K", "B">>,
      <<"1", "0", "0", "M", "B">>,
      <<"1", "G">>,
      <<"1", ".", "5", "G", "i", "B">>,
      <<"2", "G", "B">>,
      <<"8", "0", "%">>,
      <<" ", "2", "5", " ", "%">>,
      <<"1", "0", "%">>,
      <<"1", "2", ".", "5", "%">>,
      <<"0", ".", "5", "%">>,
      <<"1", "0", "0", "%">>,
      <<"N", "a", "N", "%">> }

BudgetAvail ==
    { 0, 1, 7, 1000, MinFreeSpace - 1, MinFreeSpace, MinFreeSpace + 1,
      MinFreeSpace + 3, 1431655765, 1500000000, 2000000000, 2147483647 }

\* NewCache with a parsed size string, or with none configured.
InitBudget ==
    /\ \/ \E in \in BudgetInputs : \E r \in ParseSizeSpec(in) :
             /\ r.err = ""
             /\ maxSize = SizeSpecOf(Int64ToInt(r.spec.Bytes), r.spec.Percent)
             /\ cfgKind = IF IsPercent(r.spec) THEN "pct"
                          ELSE IF in[Len(in)] = "%" THEN "nan" ELSE "abs"
       \/ cfgKind = "unset" /\ maxSize = SizeSpecOf(0, ZeroNum)
    /\ DispatchIdle
    /\ accessTime = <<>>
    /\ mu = 0
    /\ now = 1
    /\ mirrors = [k \in Keys |-> NoMirror]
    /\ tmp = [k \in Keys |-> FALSE]
    /\ readers = [k \in Keys |-> 0]
    /\ syncing = [k \in Keys |-> FALSE]
    /\ sw = [s \in Sweepers |-> IdleFrame]
    /\ sz = SizeIdle
    /\ fs = FsIdle
    /\ \E a \in BudgetAvail : bg = [BudgetIdle EXCEPT !.pc = "statfs", !.available = a]

\* syscall.Statfs succeeds or fails (cache.go:184).
BudgetStatfs ==
    /\ bg.pc = "statfs"
    /\ \E ok \in BOOLEAN :
         bg' = [bg EXCEPT !.statOk = ok,
                          !.out = getMaxSize(maxSize, ok, bg.available),
                          !.pc = IF ok THEN "usable" ELSE "done"]
    /\ UNCHANGED <<cacheVars, dispatchVars, sz, fs>>

\* An absolute size is returned as it is (cache.go:198).
BudgetAbsolute ==
    /\ bg.pc = "usable"
    /\ ~IsZero(maxSize) /\ ~IsPercent(maxSize)
    /\ bg' = [bg EXCEPT !.pc = "done"]
    /\ UNCHANGED <<cacheVars, dispatchVars, sz, fs>>

\* A share of the available bytes (cache.go:195, 202).
BudgetShare ==
    /\ bg.pc = "usable"
    /\ IsZero(maxSize) \/ IsPercent(maxSize)
    /\ bg' = [bg EXCEPT !.raw = totalUsableRaw(maxSize, bg.available), !.pc = "reserve"]
    /\ UNCHANGED <<cacheVars, dispatchVars, sz, fs>>

\* The reserve is enforced on the share (cache.go:205-214).
BudgetReserve ==
    /\ bg.pc = "reserve"
    /\ bg' = [bg EXCEPT !.pc = "done"]
    /\ UNCHANGED <<cacheVars, dispatchVars, sz, fs>>

NextBudget == BudgetStatfs \/ BudgetAbsolute \/ BudgetShare \/ BudgetReserve

SpecBudget == InitBudget /\ [][NextBudget]_vars

\* ================================================================ claims

\* ------------------------------------------------- dispatcher (section 4.5)
\* The request dispatcher, the upstream synchronizer and the singleflight
\* record, following sections 4.4, 4.5 and 5 of the specification.
Endpoints == {"info-refs", "upload-pack", "receive-pack", "other"}

RefreshPolicy == "info-refs"

\* The budget of a store in which every mirror fits.
RoomyBudget == NumKeys * (MaxRepoBytes + 1)

InitDispatch ==
    /\ cfgKind = "abs" /\ maxSize = SizeSpecOf(RoomyBudget, ZeroNum)
    /\ DispatchIdle
    /\ accessTime = <<>>
    /\ mu = 0
    /\ now = 1
    /\ mirrors = [k \in Keys |-> NoMirror]
    /\ tmp = [k \in Keys |-> FALSE]
    /\ readers = [k \in Keys |-> 0]
    /\ syncing = [k \in Keys |-> FALSE]
    /\ sw = [s \in Sweepers |-> IdleFrame]
    /\ sz = SizeIdle
    /\ fs = FsIdle
    /\ bg = BudgetIdle

\* <root>/<fingerprint>.git is there and holds HEAD.
Exists(k) == mirrors[k].present

\* The state of a fingerprint (section 4.6), eviction aside.
MirrorState(k) ==
    IF running[k] > 0 THEN "Synchronizing"
    ELSE IF Exists(k) THEN "Ready" ELSE "Absent"

\* The synchronizations of k started so far.
Started(k) == epoch[k] + running[k]

ShouldSynchronize(policy, endpoint, exists) ==
    CASE policy = "on-miss" -> ~exists
      [] policy = "always" -> TRUE
      [] policy = "info-refs" -> endpoint = "info-refs"

HasFlightNever(k) == FALSE

\* A singleflight record for k is there to join.
HasFlight(k) == flights[k].state # "none"

SyncKindAlwaysClone(k) == "clone"

\* First-time when the mirror does not exist yet, a refresh otherwise.
SyncKind(k) == IF Exists(k) THEN "fetch" ELSE "clone"

TmpLeftBehind(k) == tmp

\* The temporary sibling directory of k is removed.
CleanedTmp(k) == [tmp EXCEPT ![k] = FALSE]

\* Step 1: the path is parsed; a push and an unknown path are rejected
\* (403, 404) without touching the mirror.
Parse(r) ==
    /\ requests[r].pc = "new"
    /\ \E k \in Keys, e \in Endpoints :
          requests' = [requests EXCEPT
              ![r].key = k, ![r].endpoint = e,
              ![r].pc = IF e \in {"info-refs", "upload-pack"} THEN "parsed" ELSE "done",
              ![r].result = CASE e = "receive-pack" -> "forbidden"
                              [] e = "other" -> "notfound"
                              [] OTHER -> ""]
    /\ UNCHANGED <<cacheVars, bg, sz, fs, flights, running, epoch>>

\* Step 2: the shared read-lease, which waits only behind an exclusive one.
AcquireReadLease(r) ==
    /\ requests[r].pc = "parsed"
    /\ ~syncing[requests[r].key]
    /\ readers' = [readers EXCEPT ![requests[r].key] = @ + 1]
    /\ requests' = [requests EXCEPT ![r].pc = "leased"]
    /\ UNCHANGED <<bg, sz, fs, maxSize, cfgKind, accessTime, mu, now, mirrors, tmp, syncing, sw,
                   flights, running, epoch>>

\* Step 3, EnsureFresh: nothing to synchronize, or join the record that is
\* there, or take the exclusive slot and start the synchronization.
EnsureFresh(r) ==
    LET k == requests[r].key
    IN  /\ requests[r].pc = "leased"
        /\ IF ~ShouldSynchronize(RefreshPolicy, requests[r].endpoint, Exists(k))
           THEN /\ requests' = [requests EXCEPT ![r].pc = "fresh"]
                /\ UNCHANGED <<flights, running, syncing, tmp>>
           ELSE IF HasFlight(k)
           THEN /\ flights' = [flights EXCEPT ![k].waiters = @ \cup {r}]
                /\ requests' = [requests EXCEPT ![r].pc = "wait",
                                                ![r].epoch = flights[k].epoch,
                                                ![r].kind = flights[k].kind]
                /\ UNCHANGED <<running, syncing, tmp>>
           ELSE /\ flights' = [flights EXCEPT ![k] =
                        [kind |-> SyncKind(k), state |-> "running",
                         waiters |-> {r}, epoch |-> epoch[k]]]
                /\ running' = [running EXCEPT ![k] = @ + 1]
                /\ syncing' = [syncing EXCEPT ![k] = TRUE]
                /\ tmp' = [tmp EXCEPT ![k] = SyncKind(k) = "clone"]
                /\ requests' = [requests EXCEPT ![r].pc = "wait",
                                                ![r].epoch = epoch[k],
                                                ![r].led = TRUE,
                                                ![r].kind = SyncKind(k)]
        /\ UNCHANGED <<bg, sz, fs, maxSize, cfgKind, accessTime, mu, now, mirrors, readers, sw, epoch>>

\* The synchronization of k ends: the slot is released, the record keeps
\* the outcome for its waiters.
SyncEnds(k, outcome) ==
    /\ running' = [running EXCEPT ![k] = @ - 1]
    /\ epoch' = [epoch EXCEPT ![k] = @ + 1]
    /\ syncing' = [syncing EXCEPT ![k] = FALSE]
    /\ flights' = [flights EXCEPT ![k].state = outcome]

\* First-time success: the clone is renamed into place; the MaybeEvict
\* that follows finds the usage within the budget and returns.
FirstTimeSucceed(k) ==
    /\ flights[k].state = "running" /\ flights[k].kind = "clone"
    /\ mirrors' = [mirrors EXCEPT ![k] = [present |-> TRUE, bytes |-> CloneBytes(k), mtime |-> now]]
    /\ tmp' = [tmp EXCEPT ![k] = FALSE]
    /\ SyncEnds(k, "ok")
    /\ \A ok \in BOOLEAN, a \in AvailValues :
          WithinBudget(getMaxSize(maxSize, ok, a), getDirSizeRoot')
    /\ UNCHANGED <<bg, sz, fs, maxSize, cfgKind, accessTime, mu, now, readers, sw, requests>>

\* First-time failure is hard: the temporary directory is removed.
FirstTimeFail(k) ==
    /\ flights[k].state = "running" /\ flights[k].kind = "clone"
    /\ tmp' = CleanedTmp(k)
    /\ SyncEnds(k, "hard")
    /\ UNCHANGED <<bg, sz, fs, maxSize, cfgKind, accessTime, mu, now, mirrors, readers, sw, requests>>

\* A refresh fetches into the existing mirror.
RefreshSucceed(k) ==
    /\ flights[k].state = "running" /\ flights[k].kind = "fetch"
    /\ mirrors' = [mirrors EXCEPT ![k].bytes = IF @ < MaxRepoBytes THEN @ + 1 ELSE @]
    /\ SyncEnds(k, "ok")
    /\ UNCHANGED <<bg, sz, fs, maxSize, cfgKind, accessTime, mu, now, tmp, readers, sw, requests>>

RefreshFailDropsMirror(k) ==
    /\ flights[k].state = "running" /\ flights[k].kind = "fetch"
    /\ mirrors' = [mirrors EXCEPT ![k] = NoMirror]
    /\ SyncEnds(k, "soft")
    /\ UNCHANGED <<bg, sz, fs, maxSize, cfgKind, accessTime, mu, now, tmp, readers, sw, requests>>

\* A failed refresh is soft: the mirror is kept as it is.
RefreshFail(k) ==
    /\ flights[k].state = "running" /\ flights[k].kind = "fetch"
    /\ SyncEnds(k, "soft")
    /\ UNCHANGED <<bg, sz, fs, maxSize, cfgKind, accessTime, mu, now, mirrors, tmp, readers, sw, requests>>

\* The flights once waiter r has left the record of k: the record goes
\* with its last waiter.
WithoutWaiter(k, r) ==
    IF flights[k].waiters \ {r} = {}
    THEN [flights EXCEPT ![k] = NoFlight]
    ELSE [flights EXCEPT ![k].waiters = @ \ {r}]

\* A waiter takes the outcome; a hard one ends the request (section 7).
Observe(r) ==
    LET k == requests[r].key
    IN  /\ requests[r].pc = "wait"
        /\ r \in flights[k].waiters
        /\ flights[k].state \in {"ok", "soft", "hard"}
        /\ flights' = WithoutWaiter(k, r)
        /\ IF flights[k].state = "hard"
           THEN /\ requests' = [requests EXCEPT ![r].pc = "done",
                                                ![r].outcome = "hard",
                                                ![r].result = "hard"]
                /\ readers' = [readers EXCEPT ![k] = @ - 1]
           ELSE /\ requests' = [requests EXCEPT ![r].pc = "fresh",
                                                ![r].outcome = flights[k].state]
                /\ UNCHANGED readers
        /\ UNCHANGED <<bg, sz, fs, maxSize, cfgKind, accessTime, mu, now, mirrors, tmp, syncing, sw,
                       running, epoch>>

\* Steps 4 and 5: Touch, then the backend serves from the mirror.
Serve(r) ==
    LET k == requests[r].key
    IN  /\ requests[r].pc = "fresh"
        /\ accessTime' = Store(accessTime, k, now)
        /\ requests' = [requests EXCEPT ![r].pc = "serving",
                                        ![r].result = IF Exists(k) THEN "ok" ELSE "notfound"]
        /\ UNCHANGED <<bg, sz, fs, maxSize, cfgKind, mu, now, mirrors, tmp, readers, syncing, sw,
                       flights, running, epoch>>

\* Steps 6 and 7: the read-lease is released once the body is written.
Finish(r) ==
    /\ requests[r].pc = "serving"
    /\ readers' = [readers EXCEPT ![requests[r].key] = @ - 1]
    /\ requests' = [requests EXCEPT ![r].pc = "done"]
    /\ UNCHANGED <<bg, sz, fs, maxSize, cfgKind, accessTime, mu, now, mirrors, tmp, syncing, sw,
                   flights, running, epoch>>

\* The client of a waiting request disconnects; the synchronization is
\* cancelled with its last waiter, its temporary directory removed.
Cancel(r) ==
    LET k == requests[r].key
    IN  /\ requests[r].pc = "wait"
        /\ r \in flights[k].waiters
        /\ requests' = [requests EXCEPT ![r].pc = "done", ![r].result = "cancelled"]
        /\ readers' = [readers EXCEPT ![k] = @ - 1]
        /\ flights' = WithoutWaiter(k, r)
        /\ IF flights[k].state = "running" /\ flights[k].waiters = {r}
           THEN /\ tmp' = CleanedTmp(k)
                /\ running' = [running EXCEPT ![k] = @ - 1]
                /\ epoch' = [epoch EXCEPT ![k] = @ + 1]
                /\ syncing' = [syncing EXCEPT ![k] = FALSE]
           ELSE UNCHANGED <<tmp, running, epoch, syncing>>
        /\ UNCHANGED <<bg, sz, fs, maxSize, cfgKind, accessTime, mu, now, mirrors, sw>>

NextDispatch ==
    \/ \E r \in Requests : Parse(r)
    \/ \E r \in Requests : AcquireReadLease(r)
    \/ \E r \in Requests : EnsureFresh(r)
    \/ \E k \in Keys : FirstTimeSucceed(k)
    \/ \E k \in Keys : FirstTimeFail(k)
    \/ \E k \in Keys : RefreshSucceed(k)
    \/ \E k \in Keys : RefreshFail(k)
    \/ \E r \in Requests : Observe(r)
    \/ \E r \in Requests : Serve(r)
    \/ \E r \in Requests : Finish(r)
    \/ \E r \in Requests : Cancel(r)

SpecDispatch == InitDispatch /\ [][NextDispatch]_vars


\* ------------------------------------------- ParseSize and FormatSize
\* The texts handed to the parsers: a number, spaces and a unit put
\* together, and texts the grammar refuses.
\* Integer parts.
SizeIntegers ==
    { <<"0">>,
      <<"1">>,
      <<"2">>,
      <<"5">>,
      <<"3", "2">>,
      <<"1", "0", "0">>,
      <<"1", "0", "2", "4">>,
      <<"1", "0", "0", "0", "0", "0", "0", "0">>,
      <<"9", "2", "2", "3", "3", "7", "2", "0", "3", "6", "8", "5", "4", "7", "7", "5", "8", "0", "8">> }

\* Fractional parts.
SizeFractions ==
    { <<>>,
      <<".", "5">>,
      <<".", "0", "1">>,
      <<".", "0", "0", "5">>,
      <<".", "3">> }

\* The space between number and unit.
SizeSpaces ==
    { <<>>,
      <<" ">> }

\* Units of the table and others.
SizeUnits ==
    { <<>>,
      <<"B">>,
      <<"K">>,
      <<"K", "B">>,
      <<"K", "i", "B">>,
      <<"k", "b">>,
      <<"M">>,
      <<"M", "B">>,
      <<"M", "i", "B">>,
      <<"G">>,
      <<"G", "B">>,
      <<"G", "i", "B">>,
      <<"T">>,
      <<"T", "B">>,
      <<"T", "i", "B">>,
      <<"P", "i", "B">>,
      <<"E", "i", "B">>,
      <<"X", "B">>,
      <<"%">> }

\* Texts outside the number-and-unit shape.
SizeOddities ==
    { <<>>,
      <<" ", " ">>,
      <<"-", "5", "M", "B">>,
      <<"-", "5">>,
      <<"a", "b", "c">>,
      <<"1", ".">>,
      <<".", "5">>,
      <<"1", ".", "5", ".", "2", "K">>,
      <<" ", "1", "G", "B", " ">>,
      <<"1", " ", "G", "B", " ", "x">>,
      <<"N", "a", "N", "%">>,
      <<"n", "a", "n", "%">>,
      <<"-", "5", "%">>,
      <<"-", "0", "%">>,
      <<"0", ".", "0", "%">>,
      <<"1", "0", "0", ".", "5", "%">>,
      <<"1", "0", "1", "%">>,
      <<"i", "n", "f", "%">>,
      <<"-", "i", "n", "f", "%">>,
      <<"1", "e", "2", "%">>,
      <<"1", "e", "1", "%">>,
      <<"1", "e", "3", "%">>,
      <<"5", "e", "-", "1", "%">>,
      <<"+", "5", "%">>,
      <<"%">>,
      <<"a", "b", "c", "%">>,
      <<"5", "0", " ", "%">>,
      <<" ", "7", "%", " ">> }

SizeInputs ==
    { i \o f \o w \o u : i \in SizeIntegers, f \in SizeFractions,
                         w \in SizeSpaces, u \in SizeUnits }
    \cup SizeOddities

\* The leading digits, base 1024, of the byte counts handed to the
\* formatters.
FormatLeads == {1, 2, 7, 9, 10, 99, 100, 512, 1000, 1023}

\* Every lower digit of such a byte count.
FormatFills == {0, 1, 512, 1023}

\* The largest count of lower digits: 1024^6 = 2^60.
FormatMaxDigits == 6

\* The non-negative int64 values handed to the formatters.
FormatInputs ==
    { Int64Of(FALSE, n) :
        n \in { v \in { NatNorm([j \in 1..(e + 1) |-> IF j = e + 1 THEN m ELSE f]) :
                          m \in FormatLeads \cup {0}, f \in FormatFills,
                          e \in 0..FormatMaxDigits } :
                NatLess(v, Int64Limit) } }

InitSize ==
    /\ cfgKind = "unset" /\ maxSize = SizeSpecOf(0, ZeroNum)
    /\ DispatchIdle
    /\ accessTime = <<>>
    /\ mu = 0
    /\ now = 1
    /\ mirrors = [k \in Keys |-> NoMirror]
    /\ tmp = [k \in Keys |-> FALSE]
    /\ readers = [k \in Keys |-> 0]
    /\ syncing = [k \in Keys |-> FALSE]
    /\ sw = [s \in Sweepers |-> IdleFrame]
    /\ bg = BudgetIdle
    /\ fs = FsIdle
    /\ \/ \E s \in SizeInputs : sz = [pc |-> "text", text |-> s]
       \/ \E n \in FormatInputs : sz = [pc |-> "bytes", bytes |-> n]

\* config.ParseSize(text)
CallParseSize ==
    /\ sz.pc = "text"
    /\ \E r \in ParseSize(sz.text) :
           sz' = [pc |-> "parsed", text |-> sz.text, res |-> r]
    /\ UNCHANGED <<cacheVars, bg, dispatchVars, fs>>

\* config.ParseSizeSpec(text)
CallParseSizeSpec ==
    /\ sz.pc = "text"
    /\ \E r \in ParseSizeSpec(sz.text) :
           sz' = [pc |-> "spec", text |-> sz.text, res |-> r]
    /\ UNCHANGED <<cacheVars, bg, dispatchVars, fs>>

\* config.FormatSize(bytes)
CallFormatSize ==
    /\ sz.pc = "bytes"
    /\ sz' = [pc |-> "formatted", by |-> "config", bytes |-> sz.bytes,
              out |-> FormatSize(sz.bytes)]
    /\ UNCHANGED <<cacheVars, bg, dispatchVars, fs>>

\* mirror.formatSize(bytes), as the sweep logs sizes
CallformatSize ==
    /\ sz.pc = "bytes"
    /\ sz' = [pc |-> "formatted", by |-> "mirror", bytes |-> sz.bytes,
              out |-> formatSize(sz.bytes)]
    /\ UNCHANGED <<cacheVars, bg, dispatchVars, fs>>

\* config.ParseSize of what config.FormatSize printed
Reparse ==
    /\ sz.pc = "formatted" /\ sz.by = "config" /\ ~sz.out.panic
    /\ \E r \in ParseSize(sz.out.text) :
           sz' = [pc |-> "reparsed", bytes |-> sz.bytes, out |-> sz.out, res |-> r]
    /\ UNCHANGED <<cacheVars, bg, dispatchVars, fs>>

NextSize ==
    \/ CallParseSize
    \/ CallParseSizeSpec
    \/ CallFormatSize
    \/ CallformatSize
    \/ Reparse

SpecSize == InitSize /\ [][NextSize]_vars

\* ----------------------------------------------------- cleanEmptyParents
\* The root paths a cache may be created with.
RootTexts ==
    { <<"/", "d", "/", "m">>,
      <<"/", "d", "/", "m", "/">>,
      <<"/", "d", "/", "/", "m">>,
      <<"/", "d", "/", ".", "/", "m">>,
      <<"/", "m">>,
      <<"m">>,
      <<".", "/", "m">>,
      <<"m", "/">> }

\* The mirror <root>/h/o/r.git as the walk of listReposWithAccessTime finds it.
MirrorPath(root) == Join(Join(Join(Clean(root), <<"h">>), <<"o">>), <<"r", ".", "g", "i", "t">>)

\* The directories from p up to the top.
RECURSIVE UpFrom(_)
UpFrom(p) == IF p.names = <<>> THEN {p} ELSE {p} \cup UpFrom(Dir(p))

\* The directories above the mirror and below the top.
Ancestors(root) == {a \in UpFrom(Dir(MirrorPath(root))) : a.names # <<>>}

\* os.ReadDir(dir) returns entries: a directory of the tree lies in it, or
\* something else does.
HasEntries(tree, dir) ==
    \/ dir \in tree.busy
    \/ \E d \in tree.dirs \cup tree.files : d.names # <<>> /\ Dir(d) = dir

\* The loop of cleanEmptyParents from dir on: the tree it leaves.
RECURSIVE cleanEmptyParentsFrom(_, _, _)
cleanEmptyParentsFrom(root, tree, dir) ==
    IF PathText(dir) # root /\ PathText(dir) # <<".">> /\ PathText(dir) # <<"/">>
    THEN IF HasEntries(tree, dir) \/ dir \in tree.locked THEN tree
         ELSE cleanEmptyParentsFrom(root, [tree EXCEPT !.dirs = @ \ {dir}], Dir(dir))
    ELSE tree

\* c.cleanEmptyParents(path)
cleanEmptyParents(root, tree, path) == cleanEmptyParentsFrom(root, tree, Dir(path))

\* A cache created with some root; one mirror lies under it, and each
\* directory above the mirror may hold other entries (busy) or refuse its
\* removal (locked).
InitTree ==
    /\ cfgKind = "unset" /\ maxSize = SizeSpecOf(0, ZeroNum)
    /\ DispatchIdle
    /\ accessTime = <<>>
    /\ mu = 0
    /\ now = 1
    /\ mirrors = [k \in Keys |-> NoMirror]
    /\ tmp = [k \in Keys |-> FALSE]
    /\ readers = [k \in Keys |-> 0]
    /\ syncing = [k \in Keys |-> FALSE]
    /\ sw = [s \in Sweepers |-> IdleFrame]
    /\ bg = BudgetIdle
    /\ sz = SizeIdle
    /\ \E root \in RootTexts :
         \E busy \in SUBSET Ancestors(root), locked \in SUBSET Ancestors(root) :
            fs = [pc |-> "mirror", root |-> root,
                  tree |-> [dirs |-> UpFrom(MirrorPath(root)), files |-> {},
                           busy |-> busy, locked |-> locked]]

\* os.RemoveAll(repo.path) succeeds.
RemoveAll ==
    /\ fs.pc = "mirror"
    /\ fs' = [fs EXCEPT !.pc = "removed", !.tree.dirs = @ \ {MirrorPath(fs.root)}]
    /\ UNCHANGED <<cacheVars, bg, dispatchVars, sz>>

\* c.cleanEmptyParents(repo.path)
CleanEmptyParents ==
    /\ fs.pc = "removed"
    /\ fs' = [fs EXCEPT !.pc = "cleaned",
                        !.tree = cleanEmptyParents(fs.root, fs.tree, MirrorPath(fs.root))]
    /\ UNCHANGED <<cacheVars, bg, dispatchVars, sz>>

NextTree == RemoveAll \/ CleanEmptyParents

SpecTree == InitTree /\ [][NextTree]_vars

\* ---------------------------------------------------------- getAccessTime
\* What the two stats of getAccessTime may return.
StatResults == {StatErr} \cup {StatOk(t) : t \in Times}

\* A mirror whose HEAD and directory stat as drawn; the index is empty.
InitAccess ==
    /\ cfgKind = "unset" /\ maxSize = SizeSpecOf(0, ZeroNum)
    /\ DispatchIdle
    /\ accessTime = <<>>
    /\ mu = 0
    /\ now = 1
    /\ mirrors = [k \in Keys |-> NoMirror]
    /\ tmp = [k \in Keys |-> FALSE]
    /\ readers = [k \in Keys |-> 0]
    /\ syncing = [k \in Keys |-> FALSE]
    /\ sw = [s \in Sweepers |-> IdleFrame]
    /\ bg = BudgetIdle
    /\ sz = SizeIdle
    /\ \E k \in Keys, head \in StatResults, dir \in StatResults :
          fs = [FsIdle EXCEPT !.pc = "stat"] @@ [key |-> k, head |-> head, dir |-> dir, time |-> ZeroTime]

\* c.getAccessTime(key, path)
GetAccessTime ==
    /\ fs.pc = "stat"
    /\ fs' = [fs EXCEPT !.pc = "got",
                        !.time = accessTimeFrom(Load(accessTime, fs.key), fs.head, fs.dir)]
    /\ UNCHANGED <<cacheVars, bg, dispatchVars, sz>>

NextAccess ==
    \/ Tick
    \/ \E k \in Keys : Touch(k)
    \/ GetAccessTime

SpecAccess == InitAccess /\ [][NextAccess]_vars

\* --------------------------------------------------------------- pathToKey
\* A cache created with one of these roots.
InitKey ==
    /\ \E c \in SweepConfigs : cfgKind = c[1] /\ maxSize = c[2]
    /\ DispatchIdle
    /\ accessTime = <<>>
    /\ mu = 0
    /\ now = 1
    /\ mirrors = [k \in Keys |-> NoMirror]
    /\ tmp = [k \in Keys |-> FALSE]
    /\ readers = [k \in Keys |-> 0]
    /\ syncing = [k \in Keys |-> FALSE]
    /\ sw = [s \in Sweepers |-> IdleFrame]
    /\ bg = BudgetIdle
    /\ sz = SizeIdle
    /\ \E root \in KeyRoots : fs = [FsIdle EXCEPT !.root = root]

NextKey ==
    \/ \E k \in Keys : Touch(k)
    \/ \E k \in Keys : MirrorAppears(k)
    \/ \E s \in Sweepers : SweepStep(s)

SpecKey == InitKey /\ [][NextKey]_vars

\* ------------------------------------------------- listReposWithAccessTime
\* filepath.Ext(path): the suffix of the last element from its last dot on.
RECURSIVE ExtFrom(_, _)
ExtFrom(text, i) ==
    IF i = 0 \/ text[i] = "/" THEN <<>>
    ELSE IF text[i] = "." THEN SubSeq(text, i, Len(text))
    ELSE ExtFrom(text, i - 1)

Ext(text) == ExtFrom(text, Len(text))

HeadName == <<"H", "E", "A", "D">>

\* What may lie in <root>/h: mirrors, the temporary directory of a clone in
\* progress, a directory named like a mirror that has no HEAD yet, a mirror
\* directory whose HEAD is itself a directory, and regular files.
Catalogue ==
    << [name |-> <<"a", ".", "g", "i", "t">>, dir |-> TRUE, head |-> "file"],
       [name |-> <<"b", ".", "g", "i", "t">>, dir |-> TRUE, head |-> "file"],
       [name |-> <<"a", ".", "g", "i", "t", ".", "t", "m", "p">>, dir |-> TRUE, head |-> "file"],
       [name |-> <<"c", ".", "g", "i", "t">>, dir |-> TRUE, head |-> "none"],
       [name |-> <<"e", ".", "g", "i", "t">>, dir |-> TRUE, head |-> "dir"],
       [name |-> <<"d", ".", "g", "i", "t">>, dir |-> FALSE, head |-> "none"],
       [name |-> <<"n", "o", "t", "e", "s">>, dir |-> FALSE, head |-> "none"] >>

\* The directory <root>/h the catalogue's entries lie in.
OwnerDir(root) == Join(Clean(root), <<"h">>)

EntryPath(root, i) == Join(OwnerDir(root), Catalogue[i].name)

\* The tree under a root that holds the entries S of the catalogue.
TreeOf(root, S) ==
    [dirs   |-> UpFrom(OwnerDir(root))
                  \cup {EntryPath(root, i) : i \in {j \in S : Catalogue[j].dir}}
                  \cup {Join(EntryPath(root, i), HeadName) : i \in {j \in S : Catalogue[j].head = "dir"}},
     files  |-> {EntryPath(root, i) : i \in {j \in S : ~Catalogue[j].dir}}
                  \cup {Join(EntryPath(root, i), HeadName) : i \in {j \in S : Catalogue[j].head = "file"}},
     busy   |-> {},
     locked |-> {}]

\* q is p or lies under p.
Under(p, q) == p.abs = q.abs /\ SameStart(p.names, q.names, Len(p.names))

\* os.Stat(path) succeeds.
StatPath(tree, path) == path \in tree.dirs \/ path \in tree.files

\* The path WalkDir hands to its callback: the root as it was given, and
\* every path below it joined (and so cleaned).
WalkText(root, p) == IF p = Clean(root) THEN root ELSE PathText(p)

\* A walk that takes every directory named *.git for a mirror.
WalkDirAnyGitDir(root, tree) ==
    {p \in tree.dirs : Under(Clean(root), p) /\ Ext(WalkText(root, p)) = <<".", "g", "i", "t">>}

\* The callback of filepath.WalkDir(c.root, ...): the paths it appends.  A
\* path is visited unless a directory above it was appended (SkipDir).
WalkDir(root, tree) ==
    LET IsRepo(p) == /\ p \in tree.dirs
                     /\ Ext(WalkText(root, p)) = <<".", "g", "i", "t">>
                     /\ StatPath(tree, Join(p, HeadName))
    IN  {p \in tree.dirs :
            /\ Under(Clean(root), p)
            /\ IsRepo(p)
            /\ \A q \in tree.dirs : Under(Clean(root), q) /\ Under(q, p) /\ q # p => ~IsRepo(q)}

\* os.RemoveAll(path): path and all below it are gone.
RemoveAllOf(tree, path) ==
    [tree EXCEPT !.dirs = {d \in @ : ~Under(path, d)}, !.files = {f \in @ : ~Under(path, f)}]

WalkRoots == { <<"/", "d", "/", "m">>, <<"m", "/">> }

\* A cache over a tree that holds some of the catalogue's entries.
InitWalk ==
    /\ cfgKind = "unset" /\ maxSize = SizeSpecOf(0, ZeroNum)
    /\ DispatchIdle
    /\ accessTime = <<>>
    /\ mu = 0
    /\ now = 1
    /\ mirrors = [k \in Keys |-> NoMirror]
    /\ tmp = [k \in Keys |-> FALSE]
    /\ readers = [k \in Keys |-> 0]
    /\ syncing = [k \in Keys |-> FALSE]
    /\ sw = [s \in Sweepers |-> IdleFrame]
    /\ bg = BudgetIdle
    /\ sz = SizeIdle
    /\ \E root \in WalkRoots, S \in SUBSET (1..Len(Catalogue)) :
         fs = [pc |-> "walk", root |-> root, tree |-> TreeOf(root, S),
               listed |-> TreeOf(root, S), repos |-> {}, evicted |-> {}]

\* repos, err := c.listReposWithAccessTime()
ListRepos ==
    /\ fs.pc = "walk"
    /\ fs' = [fs EXCEPT !.pc = "loop", !.listed = fs.tree, !.repos = WalkDir(fs.root, fs.tree)]
    /\ UNCHANGED <<cacheVars, bg, dispatchVars, sz>>

\* One round of the eviction loop for the repo at path: os.RemoveAll fails
\* (continue), or succeeds and cleanEmptyParents follows.
EvictRepo(path) ==
    /\ fs.pc = "loop"
    /\ path \in fs.repos
    /\ \/ fs' = [fs EXCEPT !.repos = @ \ {path}]
       \/ fs' = [fs EXCEPT !.repos = @ \ {path},
                           !.evicted = @ \cup {path},
                           !.tree = cleanEmptyParents(fs.root, RemoveAllOf(fs.tree, path), path)]
    /\ UNCHANGED <<cacheVars, bg, dispatchVars, sz>>

\* A clone in progress creates its temporary directory beside the mirrors.
CloneBegins ==
    /\ fs.pc \in {"walk", "loop"}
    /\ EntryPath(fs.root, 3) \notin fs.tree.dirs
    /\ OwnerDir(fs.root) \in fs.tree.dirs
    /\ fs' = [fs EXCEPT !.tree.dirs = @ \cup {EntryPath(fs.root, 3)}]
    /\ UNCHANGED <<cacheVars, bg, dispatchVars, sz>>

\* The loop ends: the usage reached the target (break), or no repo is left.
LoopEnds ==
    /\ fs.pc = "loop"
    /\ fs' = [fs EXCEPT !.pc = "done"]
    /\ UNCHANGED <<cacheVars, bg, dispatchVars, sz>>

NextWalk ==
    \/ ListRepos
    \/ \E path \in fs.repos : EvictRepo(path)
    \/ CloneBegins
    \/ LoopEnds

SpecWalk == InitWalk /\ [][NextWalk]_vars

DistinctTimes(f) ==
    \A i, j \in 1..Len(f.repos) :
        i # j => f.repos[i].accessTime # f.repos[j].accessTime

Looping(f) == f.pc \in {"loop", "done"}

\* C1 as stated: in a sweep over mirrors with pairwise distinct access
\* times, the removed mirrors are exactly the oldest ones: no mirror is
\* removed while a mirror with an older access time is still there.
C1_LruOrdering ==
    \A s \in Sweepers :
        Looping(sw[s]) /\ DistinctTimes(sw[s]) =>
            \A i, j \in 1..Len(sw[s].repos) :
                (/\ sw[s].repos[i].accessTime < sw[s].repos[j].accessTime
                 /\ sw[s].repos[j].path \in Evicted(sw[s]))
                => sw[s].repos[i].path \in Evicted(sw[s])

\* C1 amended: in a sweep over mirrors with pairwise distinct access
\* times, no mirror is removed while a mirror with an older access time
\* survives, except an older mirror whose own removal failed: the mirrors
\* removed or skipped on a removal error are exactly the oldest ones.
C1_LruOrderingUnlessRemoveFails ==
    \A s \in Sweepers :
        Looping(sw[s]) /\ DistinctTimes(sw[s]) =>
            \A i, j \in 1..Len(sw[s].repos) :
                (/\ sw[s].repos[i].accessTime < sw[s].repos[j].accessTime
                 /\ sw[s].repos[j].path \in Evicted(sw[s]))
                => sw[s].repos[i].path \in Evicted(sw[s]) \cup sw[s].failed

\* A finished sweep over three mirrors with distinct access times that
\* removed some and kept some, one removal having failed.
C1_Witness ==
    \E s \in Sweepers :
        /\ sw[s].pc = "done"
        /\ Len(sw[s].repos) >= 3
        /\ DistinctTimes(sw[s])
        /\ Evicted(sw[s]) # {}
        /\ sw[s].failed # {}
        /\ \E i \in 1..Len(sw[s].repos) : mirrors[sw[s].repos[i].path].present

NoMirrorLeft == \A k \in Keys : ~mirrors[k].present

C4_EvictionRespectsLeases ==
    [][\A k \in Keys :
          mirrors[k].present /\ ~mirrors'[k].present
          => readers[k] = 0 /\ ~syncing[k]]_vars

InCritical(f) == f.pc \in {"budget", "list", "loop", "within", "done"}

\* C5: at most one MaybeEvict call is between its budget computation and
\* its return at any moment.
C5_SweepMutualExclusion ==
    \A s1, s2 \in Sweepers :
        InCritical(sw[s1]) /\ InCritical(sw[s2]) => s1 = s2

\* One call is evicting while another waits for the mutex.
C5_Witness ==
    \E s1, s2 \in Sweepers :
        sw[s1].pc = "loop" /\ sw[s1].idx > 1 /\ sw[s2].pc = "lock"

\* C10: a call that finds no budget (B <= 0) or usage within it (U <= B)
\* returns at once: no mirror or directory is removed and the Access Index
\* is left as it was, by that step and by the return that follows.
C10_NoEvictionWithinBudget ==
    [][\A s \in Sweepers :
          /\ (/\ sw[s].pc = "budget" /\ sw'[s].pc # "budget"
              /\ (sw'[s].maxBytes <= 0 \/ getDirSizeRoot <= sw'[s].maxBytes))
             => (/\ sw'[s].pc = "within"
                 /\ mirrors' = mirrors /\ tmp' = tmp /\ accessTime' = accessTime)
          /\ (sw[s].pc = "within" /\ sw'[s].pc # "within")
             => (/\ sw'[s].pc = "idle"
                 /\ mirrors' = mirrors /\ tmp' = tmp /\ accessTime' = accessTime)]_vars

\* A call returned early with a positive budget over a store that holds a
\* touched mirror.
C10_Witness ==
    \E s \in Sweepers :
        /\ sw[s].pc = "within" /\ sw[s].maxBytes > 0 /\ sw[s].currentSize > 0
        /\ \E k \in Keys : mirrors[k].present /\ k \in DOMAIN accessTime

Min(a, b) == IF a < b THEN a ELSE b

BudgetDone == bg.pc = "done" /\ bg.statOk

\* C3: whatever the size specification (absolute, percent or unset) and
\* whatever the available bytes A, the budget B leaves the reserve free:
\* A - B >= min(R, A).
C3_MinimumFreeReserve ==
    BudgetDone => bg.available - bg.out >= Min(MinFreeSpace, bg.available)

\* q = floor(a * n / d), stated by the remainder: 0 <= a*n - q*d < d.
IsFloorOf(q, a, n, d) ==
    LET r == (a % d) * n - (q - (a \div d) * n) * d
    IN  0 <= r /\ r < d

BudgetSized == bg.pc \in {"reserve", "done"} /\ bg.statOk

CloneCohort(r) ==
    {q \in Requests : /\ requests[q].kind = "clone"
                      /\ requests[q].key = requests[r].key
                      /\ requests[q].epoch = requests[r].epoch}

FirstTimeRunning(k) == flights[k].state = "running" /\ flights[k].kind = "clone"

\* C7: while a first-time synchronization runs the mirror does not exist;
\* when it fails or is cancelled the temporary directory is gone, the
\* mirror still does not exist and the fingerprint is Absent again; a
\* mirror comes to exist only by a first-time synchronization succeeding.
C7_AtomicFirstSync ==
    [][\A k \in Keys :
          /\ FirstTimeRunning(k) => ~Exists(k)
          /\ (FirstTimeRunning(k) /\ flights'[k].state \notin {"running", "ok"})
             => (~Exists(k)' /\ ~tmp'[k] /\ MirrorState(k)' = "Absent")
          /\ (~Exists(k) /\ Exists(k)')
             => (FirstTimeRunning(k) /\ flights'[k].state = "ok")]_vars

\* One first-time synchronization was cancelled and one failed, the
\* fingerprints are Absent, and a later request cloned one of them anew.
C7_Witness ==
    \E r1, r2, r3 \in Requests :
        /\ requests[r1].result = "cancelled" /\ requests[r1].kind = "clone" /\ requests[r1].led
        /\ requests[r2].outcome = "hard"
        /\ requests[r3].key = requests[r1].key /\ requests[r3].led
        /\ requests[r3].kind = "clone" /\ requests[r3].epoch > requests[r1].epoch
        /\ MirrorState(requests[r2].key) = "Absent" /\ ~tmp[requests[r2].key]

NatDistance(a, b) == IF NatLess(a, b) THEN NatSub(b, a) ELSE NatSub(a, b)

\* v is within 5% of n: 20 * |v - n| <= n
WithinFivePercent(v, n) ==
    ~v.neg /\ ~NatLess(n.mag, NatMulSmall(NatDistance(v.mag, n.mag), 20))

\* C11: for every byte value n >= 1024 of the non-negative 64-bit range,
\* ParseSize(FormatSize(n)) succeeds and returns a value within 5% of n.
C11_SizeRoundTrip ==
    sz.pc = "reparsed" /\ ~NatLess(sz.bytes.mag, NatOf(unit)) =>
        sz.res.err = "" /\ WithinFivePercent(sz.res.bytes, sz.bytes)

\* The factor the unit stands for: 1 for none or B, 1024^k for the bare
\* and the iB forms, 1000^k for the B forms, k the rank of the letter.
FactorOf(u) ==
    IF u \in {<<>>, <<"B">>} THEN <<1>>
    ELSE NatPow(IF Len(u) = 2 THEN 1000 ELSE 1024,
                CHOOSE k \in 1..4 : <<"K", "M", "G", "T">>[k] = u[1])

\* The decimal of an accepted text times its factor, truncated, in exact
\* arithmetic.
ExactBytes(text) ==
    LET m == FindStringSubmatch(TrimSpace(text))
        u == [j \in 1..Len(m.unit) |-> ToUpperChar(m.unit[j])]
        n == NatOfDigits(m.int \o m.frac)
    IN  NatDivMod(NatMul(n, FactorOf(u)), Pow10(Len(m.frac))).q

\* C12: for every accepted input the result of ParseSize is the decimal
\* times the factor of the unit, truncated toward zero, and is not
\* negative.
C12_ParseSizeResult ==
    sz.pc = "parsed" /\ sz.res.err = "" =>
        sz.res.bytes = Int64Of(FALSE, ExactBytes(sz.text))

\* The digits of t from position a to position b, at least one.
AllDigits(t, a, b) == a <= b /\ \A j \in a..b : IsDigit(t[j])

\* t is a number, spaces and letters: digits, perhaps a point and digits,
\* then spaces, then the letters from position u on.
WellFormedWithUnitAt(t, u) ==
    \E i \in 1..Len(t) : \E j \in i..Len(t) :
        /\ AllDigits(t, 1, i)
        /\ j = i \/ (t[i + 1] = "." /\ AllDigits(t, i + 2, j))
        /\ j < u /\ u <= Len(t) + 1
        /\ \A k \in (j + 1)..(u - 1) : t[k] = " "
        /\ \A k \in u..Len(t) : IsLetter(t[k])

WellFormed(t) == \E u \in 1..(Len(t) + 1) : WellFormedWithUnitAt(t, u)

\* The units of the table, upper-cased.
TableUnits ==
    { <<>>, <<"B">>,
      <<"K">>, <<"K", "B">>, <<"K", "I", "B">>,
      <<"M">>, <<"M", "B">>, <<"M", "I", "B">>,
      <<"G">>, <<"G", "B">>, <<"G", "I", "B">>,
      <<"T">>, <<"T", "B">>, <<"T", "I", "B">> }

\* A well-formed text whose unit, upper-cased, is outside the table.
HasUnknownUnit(t) ==
    \E u \in 1..(Len(t) + 1) :
        /\ WellFormedWithUnitAt(t, u)
        /\ [j \in 1..(Len(t) - u + 1) |-> ToUpperChar(t[u + j - 1])] \notin TableUnits

\* A well-formed text behind a minus sign.
IsNegativeSize(t) == t # <<>> /\ t[1] = "-" /\ WellFormed(Tail(t))

\* The failure signal a message stands for.
FailureKind(err) ==
    CASE err = "" -> "none"
      [] err = "empty size string" -> "Empty"
      [] err = "invalid size format" -> "InvalidFormat"
      [] err = "unknown unit" -> "UnknownUnit"
      [] err = "invalid percentage" -> "InvalidFormat"
      [] err = "percentage must be between 0 and 100" -> "OutOfRange"

PlainDecimal(b) ==
    \E i \in 1..Len(b) :
        /\ AllDigits(b, 1, i)
        /\ i = Len(b) \/ (b[i + 1] = "." /\ AllDigits(b, i + 2, Len(b)))

\* The value <<n, d>> of a plain decimal, n a wide natural.
DecimalValue(b) ==
    LET digits == SelectSeq(b, IsDigit)
        point == CHOOSE i \in 1..(Len(b) + 1) : i = Len(b) + 1 \/ b[i] = "."
    IN  <<NatOfDigits(digits), Pow10(IF point <= Len(b) THEN Len(b) - point ELSE 0)>>

\* The rationals <<n, d>> and <<m, e>> are equal.
SameNumber(a, b) == a[2] # 0 /\ b[2] # 0 /\ a[1] * b[2] = b[1] * a[2]

\* C14: ParseSizeSpec on a text ending in '%' succeeds iff its number p has
\* 0 < p <= 100, returning Percent = p, Bytes = 0 and IsPercent true; 0,
\* negative values and values above 100 fail with OutOfRange; a text
\* without '%' yields Percent = 0 and IsPercent false; no returned
\* specification has both tags active or a Percent outside (0, 100].
C14_PercentDomain ==
    sz.pc = "spec" =>
        LET t == TrimSpace(sz.text)
            percent == t # <<>> /\ t[Len(t)] = "%"
            b == TrimSpace(SubSeq(t, 1, Len(t) - 1))
            s == sz.res.spec
            ok == sz.res.err = ""
        IN  /\ percent /\ ok =>
                /\ IsPercent(s) /\ s.Bytes = Int64Zero
                /\ s.Percent[1] <= 100 * s.Percent[2]
            /\ percent /\ PlainDecimal(b) =>
                LET p == DecimalValue(b)
                IN  IF p[1] # <<>> /\ ~NatLess(NatOf(100 * p[2]), p[1])
                    THEN ok /\ SameNumber(s.Percent, <<NatToInt(p[1]), p[2]>>)
                    ELSE FailureKind(sz.res.err) = "OutOfRange"
            /\ percent /\ b # <<>> /\ b[1] = "-" /\ PlainDecimal(Tail(b)) =>
                FailureKind(sz.res.err) = "OutOfRange"
            /\ ~percent /\ ok => s.Percent = ZeroNum /\ ~IsPercent(s)
            /\ ok => ~(s.Bytes # Int64Zero /\ s.Percent # ZeroNum)

\* The text is a one-decimal mantissa of the given tenths, a space, the
\* letter and "iB".
IsMantissaAndUnit(text, tenths, letter) ==
    text = DigitsOfNat(NatDivMod(tenths, 10).q)
           \o <<".", DigitChars[NatDivMod(tenths, 10).r + 1], " ", letter, "i", "B">>

\* The tenths printed for n over 1024^e: within one tenth of n / 1024^e.
IsTenthsOf(tenths, n, e) ==
    ~NatLess(NatPow(unit, e), NatDistance(NatMul(tenths, NatPow(unit, e)), NatMulSmall(n, 10)))

\* C15: FormatSize(n) is "<n> B" for 0 <= n < 1024; for n >= 1024 it is a
\* one-decimal mantissa and the unit u iB, u the e-th of K, M, G, T, P, E
\* for the largest power 1024^e not exceeding n, so that n / 1024^e lies
\* in [1, 1024) and the unit index never leaves the table; the
\* formatSize of the cache prints the same.
C15_Formatter ==
    sz.pc = "formatted" =>
        LET n == sz.bytes.mag
        IN  IF NatLess(n, NatOf(unit))
            THEN ~sz.out.panic /\ sz.out.text = DigitsOfNat(n) \o <<" ", "B">>
            ELSE /\ ~sz.out.panic
                 /\ \E e \in 1..6 :
                       /\ ~NatLess(n, NatPow(unit, e))
                       /\ NatLess(n, NatPow(unit, e + 1))
                       /\ \E ten \in 10..10240 :
                             /\ IsMantissaAndUnit(sz.out.text, NatOf(ten),
                                                  <<"K", "M", "G", "T", "P", "E">>[e])
                             /\ IsTenthsOf(NatOf(ten), n, e)

\* A size of the last unit of the table has been formatted.
C15_Witness ==
    /\ sz.pc = "formatted"
    /\ ~NatLess(sz.bytes.mag, NatPow(unit, 6))
    /\ sz.out.text = <<"7", ".", "5", " ", "E", "i", "B">>

\* The synchronization of k ends in this step with the given outcome.
EndsWith(k, kind, outcome) ==
    /\ flights[k].state = "running" /\ flights[k].kind = kind
    /\ flights'[k].state = outcome

\* C16: a failed refresh of an existing mirror leaves the mirror as it
\* was, and the requests that waited for it are still served from it; a
\* failed first-time synchronization leaves no mirror, and the requests
\* that waited for it end with the error.
C16_SoftRefreshHardFirstTime ==
    /\ [][\A k \in Keys :
            /\ EndsWith(k, "fetch", "soft") =>
                   mirrors[k].present /\ mirrors'[k] = mirrors[k]
            /\ EndsWith(k, "clone", "hard") =>
                   ~mirrors'[k].present /\ ~tmp'[k]]_vars
    /\ [](\A r \in Requests :
            /\ requests[r].outcome = "soft" /\ requests[r].pc \in {"serving", "done"} =>
                   requests[r].result = "ok"
            /\ requests[r].outcome = "hard" => requests[r].result = "hard")

\* One request has been served from the stale mirror after a failed
\* refresh, another has got the error of a failed first-time clone.
C16_Witness ==
    \E r, q \in Requests :
        /\ requests[r].pc = "done" /\ requests[r].outcome = "soft"
        /\ requests[r].result = "ok"
        /\ requests[q].pc = "done" /\ requests[q].outcome = "hard"
        /\ ~mirrors[requests[q].key].present

FailsAt(s) ==
    /\ sw[s].pc = "loop" /\ ~LoopDone(sw[s])
    /\ sw'[s].idx = sw[s].idx + 1
    /\ sw[s].repos[sw[s].idx].path \in sw'[s].failed \cup sw'[s].unmeasured

\* C18: when measuring or removing a selected mirror fails, its Access
\* Index entry is kept, the running usage is not decremented for it, and
\* the sweep goes on with the next mirror.
C18_PerMirrorErrorsSkip ==
    [][\A s \in Sweepers :
          FailsAt(s) => /\ accessTime' = accessTime
                        /\ sw'[s].currentSize = sw[s].currentSize
                        /\ sw'[s].pc = "loop"]_vars

\* The directories an ascent from the mirror may remove: those below the
\* root that are empty and removable, and so is every one beneath them.
RECURSIVE MayGo(_, _, _)
MayGo(root, tree, dir) ==
    /\ Len(dir.names) > Len(Clean(root).names)
    /\ dir \notin tree.locked /\ dir \notin tree.busy
    /\ \A d \in tree.dirs : d.names # <<>> /\ Dir(d) = dir => MayGo(root, tree, d)

\* C19: after a mirror is removed, its ancestors below the root are
\* removed bottom-up while they are empty and removable and no further,
\* and the root and what lies above it stay, whatever the root path given.
C19_CleanupBoundedByRoot ==
    fs.pc = "cleaned" =>
        \A a \in Ancestors(fs.root) :
            a \in fs.tree.dirs <=>
                ~MayGo(fs.root, [fs.tree EXCEPT !.dirs = Ancestors(fs.root)], a)

\* C20: the access time a sweep uses for a mirror is the value the most
\* recent Touch of its key wrote in the index, if there is one; else the
\* mtime of its HEAD; else the mtime of its directory; else the zero time,
\* which is before every other time.
C20_AccessTimeResolution ==
    /\ [][/\ \A k \in Keys :
                (k \in DOMAIN accessTime' /\ Load(accessTime', k) # Load(accessTime, k))
                    => accessTime'[k] = now
          /\ fs.pc = "stat" /\ fs'.pc = "got" =>
                /\ fs.key \in DOMAIN accessTime => fs'.time = accessTime[fs.key]
                /\ fs.key \notin DOMAIN accessTime /\ fs.head.ok => fs'.time = fs.head.mtime
                /\ fs.key \notin DOMAIN accessTime /\ ~fs.head.ok /\ fs.dir.ok =>
                       fs'.time = fs.dir.mtime
                /\ fs.key \notin DOMAIN accessTime /\ ~fs.head.ok /\ ~fs.dir.ok =>
                       fs'.time = ZeroTime]_vars
    /\ [](\A t \in Times : Before(ZeroTime, t))

\* The index was consulted before a HEAD and a directory that say
\* otherwise.
C20_Witness ==
    /\ fs.pc = "got"
    /\ fs.key \in DOMAIN accessTime /\ fs.time = accessTime[fs.key]
    /\ fs.head.ok /\ fs.head.mtime # fs.time
    /\ fs.dir.ok /\ fs.dir.mtime # fs.head.mtime

\* C21: the key a sweep derives from the path <root>/<f>.git is f, so the
\* sweep reads the time Touch(f) wrote; deleting the mirror removes the
\* entry of f from the index and no other; and an entry comes into the
\* index only by a Touch, so that an evicted fingerprint has none until
\* it is touched again.
C21_KeyRoundTrip ==
    /\ [](\A k \in Keys :
            pathToKey(fs.root, WalkPath(fs.root, Fingerprint(k))) = Fingerprint(k))
    /\ [](\A s \in Sweepers :
            sw[s].pc \in {"loop", "done"} =>
                \A i \in 1..Len(sw[s].repos) : sw[s].repos[i].key = sw[s].repos[i].path)
    /\ [][\A s \in Sweepers :
            sw[s].pc = "list" /\ sw'[s].pc = "loop" =>
                \A i \in 1..Len(sw'[s].repos) :
                    sw'[s].repos[i].path \in DOMAIN accessTime =>
                        sw'[s].repos[i].accessTime = accessTime[sw'[s].repos[i].path]]_vars
    /\ [][\A k \in Keys :
            mirrors[k].present /\ ~mirrors'[k].present =>
                /\ k \notin DOMAIN accessTime'
                /\ \A j \in Keys \ {k} : Load(accessTime', j) = Load(accessTime, j)]_vars
    /\ [][\A k \in Keys :
            k \notin DOMAIN accessTime /\ k \in DOMAIN accessTime' =>
                sw' = sw /\ accessTime'[k] = now]_vars

\* Under a root not in cleaned form a sweep has evicted a mirror whose
\* time it read from the index; the entry is gone, another is kept.
C21_Witness ==
    /\ PathText(Clean(fs.root)) # fs.root
    /\ \E s \in Sweepers :
          /\ sw[s].pc = "done"
          /\ \E i \in 1..Len(sw[s].repos) :
                /\ sw[s].repos[i].path \in Evicted(sw[s])
                /\ sw[s].repos[i].path \notin DOMAIN accessTime
                /\ ~mirrors[sw[s].repos[i].path].present
          /\ \E j \in DOMAIN accessTime : mirrors[j].present

\* A step of sweep s within its loop.
InLoop(s) == sw[s].pc = "loop" /\ sw'[s].pc \in {"loop", "done"}

\* C22: Touch never waits for the sweep lock; a sweep keeps the list it
\* read after taking the lock, evicts along it in order, and no write of
\* the index changes the list, the frame of a sweep or any mirror.
C22_SweepSnapshot ==
    /\ [](\A k \in Keys : mu # 0 => ENABLED Touch(k))
    /\ [][\A s \in Sweepers :
            InLoop(s) =>
                /\ sw'[s].repos = sw[s].repos
                /\ sw'[s].idx \in {sw[s].idx, sw[s].idx + 1}
                /\ \A k \in Keys :
                      mirrors[k].present /\ ~mirrors'[k].present =>
                          /\ sw'[s].idx = sw[s].idx + 1
                          /\ k = sw[s].repos[sw[s].idx].path]_vars
    /\ [][\A k \in Keys :
            (k \in DOMAIN accessTime' /\ Load(accessTime', k) # Load(accessTime, k)) =>
                sw' = sw /\ mirrors' = mirrors /\ mu' = mu]_vars

\* A sweep holds the lock and has evicted a mirror, and a mirror still on
\* its list has been touched since the list was read.
C22_Witness ==
    \E s \in Sweepers :
        /\ sw[s].pc = "loop" /\ mu = s
        /\ Evicted(sw[s]) # {}
        /\ \E i \in sw[s].idx..Len(sw[s].repos) :
              /\ sw[s].repos[i].path \in DOMAIN accessTime
              /\ Before(sw[s].repos[i].accessTime, accessTime[sw[s].repos[i].path])

\* The name of p ends in ".git".
NamedGit(p) ==
    /\ p.names # <<>>
    /\ LET name == p.names[Len(p.names)]
       IN  Len(name) >= 4 /\ SubSeq(name, Len(name) - 3, Len(name)) = <<".", "g", "i", "t">>

\* p is, in the tree, a directory under the root whose name ends in .git
\* and which holds an entry HEAD.
MirrorShaped(tree, root, p) ==
    /\ p \in tree.dirs
    /\ Under(Clean(root), p) /\ p # Clean(root)
    /\ NamedGit(p)
    /\ StatPath(tree, Join(p, HeadName))

\* p lies in a directory that was a mirror when the sweep listed.
PartOfListedMirror(p) ==
    \E q \in fs.listed.dirs : MirrorShaped(fs.listed, fs.root, q) /\ Under(q, p)

\* C23: whatever a sweep makes disappear is a directory that was a mirror
\* (named *.git, holding HEAD) when the sweep listed, with what lies in it,
\* or a directory above an evicted mirror that holds nothing any more; and
\* whatever else lay under the root at the listing (a temporary clone
\* directory, a *.git directory without HEAD, a regular file) is still
\* there however many mirrors the sweep evicts.
C23_SweepDeletesOnlyMirrors ==
    /\ [][\A p \in fs.tree.dirs \cup fs.tree.files :
            ~StatPath(fs'.tree, p) =>
                \/ PartOfListedMirror(p)
                \/ /\ p \in fs.tree.dirs
                   /\ \E q \in fs'.evicted : Under(p, q) /\ p # q
                   /\ \A e \in fs'.tree.dirs \cup fs'.tree.files : ~Under(p, e)]_vars
    /\ [](fs.pc \in {"loop", "done"} =>
            \A p \in fs.listed.dirs \cup fs.listed.files :
                (/\ ~PartOfListedMirror(p)
                 /\ ~\E q \in fs.listed.dirs : MirrorShaped(fs.listed, fs.root, q) /\ Under(p, q))
                    => StatPath(fs.tree, p))

\* A sweep that evicted every mirror it listed, several of them, and ended
\* beside a temporary clone directory, a *.git directory without HEAD and
\* a regular file named *.git.
C23_Witness ==
    /\ fs.pc = "done" /\ fs.repos = {}
    /\ Cardinality(fs.evicted) >= 3
    /\ fs.evicted = WalkDir(fs.root, fs.listed)
    /\ EntryPath(fs.root, 3) \in fs.tree.dirs
    /\ EntryPath(fs.root, 4) \in fs.tree.dirs
    /\ EntryPath(fs.root, 6) \in fs.tree.files

\* The sweeper runs between c.mu.Lock() and its return.
Running(s) == sw[s].pc \in {"budget", "within", "list", "loop", "done"}

\* The sweeper itself steps: its frame changes in more than the note of
\* what others wrote.
LoopRound(s) == [sw'[s] EXCEPT !.dirty = sw[s].dirty] # sw[s]

\* C24: a MaybeEvict call holds the mutex exactly while it runs, each round
\* of its loop moves on to the next listed mirror and no round follows the
\* last one, its return (early or after the loop) releases the mutex; so
\* under a fair scheduler every call that runs returns, and every call
\* waiting for the mutex comes to run.
C24_SweepTerminates ==
    /\ [](\A s \in Sweepers : Running(s) <=> mu = s)
    /\ [][\A s \in Sweepers :
            /\ (sw[s].pc = "loop" /\ sw'[s].pc = "loop" /\ LoopRound(s)) =>
                  /\ sw[s].idx <= Len(sw[s].repos)
                  /\ sw'[s].idx = sw[s].idx + 1
                  /\ sw'[s].repos = sw[s].repos
            /\ (Running(s) /\ ~Running(s)') => sw'[s].pc = "idle" /\ mu' = 0]_vars
    /\ \A s \in Sweepers : (mu = s) ~> (sw[s].pc = "idle" /\ mu # s)
    /\ \A s \in Sweepers : (sw[s].pc = "lock") ~> (mu = s)

\* One call waits for the mutex while another, in its loop with mirrors
\* evicted and mirrors left, holds it.
C24_Witness ==
    \E s, t \in Sweepers :
        /\ sw[s].pc = "lock"
        /\ mu = t /\ sw[t].pc = "loop" /\ sw[t].idx > 1 /\ sw[t].idx <= Len(sw[t].repos)

====
